---- MODULE Spec2Model ----
(***************************************************************************)
(* NotebookAI back end: the retrieval-augmented answer pipeline of         *)
(* backend/app/services/rag_service.py and embedding_service.py, and the   *)
(* document and notebook routes of backend/app/api/routes that write and   *)
(* delete the chunks it searches.                                          *)
(*                                                                         *)
(* One RAGService instance is shared by all chat requests                  *)
(* (api/routes/chat.py:11).  Its methods and the route handlers are        *)
(* coroutines of one asyncio event loop: a step of the model is the code a *)
(* coroutine runs between two suspension points (an await that really      *)
(* suspends).  A Python str is modelled as the sequence of its characters. *)
(***************************************************************************)
EXTENDS Integers, Sequences, FiniteSets, TLC

\* ------------------------------------------------------------------ bounds
\* Number of calls (chat requests, direct generator calls) in one behaviour.
MaxCalls == 2
\* Number of rows of the documents table.
MaxDocs == 2
\* Number of chunks of one retrieval result.
MaxChunks == 2
\* Number of pieces an answer text is made of.
MaxPieces == 4
\* Number of words of an uploaded text.
MaxWords == 6
\* Largest chunk_size setting, in words.
MaxChunkSize == 4
\* Number of words of an uploaded document.
MaxUploadWords == 2
\* Number of upload requests in one behaviour.
MaxUploads == 1

\* ------------------------------------------------------- program constants
\* rag_service.py:105  len(content) > 100
MinContentLen == 100
\* rag_service.py:108  content[:2000]
MaxContextChars == 2000
\* rag_service.py:109  "similarity": 0.5, in hundredths
DefaultSimilarity == 50

None == "None"

CallIds == 1..MaxCalls
DocIds == 1..MaxDocs
NotebookIds == {"n1", "n2"}
UserIds == {"u1", "u2"}

VARIABLES
    documents,        \* the documents table, rows in the order the store returns them
    model_fallbacks,  \* RAGService.model_fallbacks
    current_model,    \* RAGService.current_model, one field for all calls
    calls,            \* per call: the coroutine's position and its locals
    applied,          \* the last application of a helper: arguments and result
    document_embeddings,  \* the chunk table, a set of rows
    notebooks,        \* the notebooks table, a set of rows
    chat_history,     \* the chat_history table, a set of rows
    notes,            \* the notes table, a set of rows
    uuids             \* how many identifiers uuid.uuid4() has issued

\* The tables besides documents, and the identifier source.
store == <<document_embeddings, notebooks, chat_history, notes, uuids>>

vars == <<documents, model_fallbacks, current_model, calls, applied, store>>

\* ------------------------------------------------------------ documents
\* A text of `len` characters; the characters differ by position and by document.
Content(len, k) == [j \in 1..len |-> (j + k) % 7]

\* Content lengths around the two thresholds of the raw-document fallback.
ContentLens == {0, MinContentLen, MinContentLen + 1, MaxContextChars, MaxContextChars + 1}

\* Content length standing for a NULL content column.
NullLen == 0 - 1

\* The embedding_id of a document row no batch id was written to (NULL).
NoBatch == 0

\* file.filename of an upload (documents.py:85).
UploadName == <<"s">>

\* A row of table documents (documents.py:83-90); content may be NULL in the store,
\* which reads as Python None: content_is_null.
DocRow(k, nb, len) ==
    [id |-> k, notebook_id |-> nb, filename |-> UploadName,
     content_is_null |-> (len = NullLen),
     content |-> IF len = NullLen THEN << >> ELSE Content(len, k),
     embedding_id |-> NoBatch]

\* The tables of at most MaxDocs rows whose content lengths are drawn from lens.
Tables(lens) ==
    UNION { { [k \in 1..n |-> DocRow(k, f[k][1], f[k][2])] :
                f \in [1..n -> NotebookIds \X (lens \cup {NullLen})] } : n \in 0..MaxDocs }

Min(a, b) == IF a < b THEN a ELSE b

\* Python's s[:n]
Prefix(s, n) == SubSeq(s, 1, Min(n, Len(s)))

\* ------------------------------------------------------------------ text
\* A Python str is the sequence of its characters, each a one-character string.
\* The literals of rag_service.py, character by character.
\* rag_service.py:137 and :222  "[Document: "
DocumentOpen == <<"[", "D", "o", "c", "u", "m", "e", "n", "t", ":", " ">>
\* rag_service.py:137  what follows the name in a header: "]" and a line break
DocumentClose == <<"]", "\n">>
\* rag_service.py:143  "\n---\n"
ContextSeparator == <<"\n", "-", "-", "-", "\n">>
\* rag_service.py:136  "Unknown Document"
UnknownDocument ==
    <<"U", "n", "k", "n", "o", "w", "n", " ", "D", "o", "c", "u", "m", "e", "n", "t">>

\* str.join: the parts in order with sep between neighbours.
RECURSIVE Join(_, _)
Join(sep, parts) ==
    IF parts = << >> THEN << >>
    ELSE IF Len(parts) = 1 THEN parts[1]
    ELSE parts[1] \o sep \o Join(sep, Tail(parts))

\* ----------------------------------------------------------------- chunker
\* The characters str.split() and str.strip() treat as blank, of those that occur
\* in the texts here.
Whitespace == {" ", "\n", "\t"}

\* The length of the run of non-blank characters s begins with.
RECURSIVE WordLen(_)
WordLen(s) ==
    IF s = << >> \/ Head(s) \in Whitespace THEN 0 ELSE 1 + WordLen(Tail(s))

\* str.split(): the maximal runs of non-blank characters, in order.
RECURSIVE Split(_)
Split(s) ==
    IF s = << >> THEN << >>
    ELSE IF Head(s) \in Whitespace THEN Split(Tail(s))
    ELSE <<SubSeq(s, 1, WordLen(s))>> \o Split(SubSeq(s, WordLen(s) + 1, Len(s)))

\* Python's ws[i:i + n] on a list, i counted from 0.
Slice(ws, i, n) == SubSeq(ws, i + 1, Min(i + n, Len(ws)))

\* range(0, n, step): the start indices of the chunker's loop (line 127).
RECURSIVE RangeFrom(_, _, _)
RangeFrom(i, n, step) ==
    IF i >= n THEN << >> ELSE <<i>> \o RangeFrom(i + step, n, step)

\* A chunker that emits full windows only.
MutSplitIntoChunksFullWindows(content, chunk_size, overlap) ==
    LET words == Split(content)
        starts == RangeFrom(0, Len(words) - chunk_size + 1, chunk_size - overlap)
    IN [j \in 1..Len(starts) |-> Join(<<" ">>, Slice(words, starts[j], chunk_size))]

\* A chunker whose windows do not overlap.
MutSplitIntoChunksDisjoint(content, chunk_size, overlap) ==
    LET words == Split(content)
        starts == RangeFrom(0, Len(words), chunk_size)
    IN [j \in 1..Len(starts) |-> Join(<<" ">>, Slice(words, starts[j], chunk_size))]

\* A chunker that steps one word further than its window reaches.
MutSplitIntoChunksSkipsAhead(content, chunk_size, overlap) ==
    LET words == Split(content)
        starts == RangeFrom(0, Len(words), chunk_size + 1)
    IN [j \in 1..Len(starts) |-> Join(<<" ">>, Slice(words, starts[j], chunk_size))]

\* _split_into_chunks (embedding_service.py:117-132) under settings.chunk_size
\* and settings.chunk_overlap: one window per start index, joined by single
\* blanks, kept unless it strips to the empty string.
SplitIntoChunks(content, chunk_size, overlap) ==
    LET words == Split(content)
        starts == RangeFrom(0, Len(words), chunk_size - overlap)
        windows == [j \in 1..Len(starts) |->
                      Join(<<" ">>, Slice(words, starts[j], chunk_size))]
        NotBlank(chunk) == \E k \in 1..Len(chunk) : chunk[k] \notin Whitespace
    IN SelectSeq(windows, NotBlank)

\* ------------------------------------------------- raw-document fallback
\* A fallback that also keeps a document of exactly the minimum length.
MutFallbackChunkOfAtLeast(doc) ==
    IF ~doc.content_is_null /\ doc.content # << >> /\ Len(doc.content) >= MinContentLen
    THEN << [document_id |-> doc.id,
             content |-> Prefix(doc.content, MaxContextChars),
             similarity |-> DefaultSimilarity] >>
    ELSE << >>

\* A fallback that passes the whole content on.
MutFallbackChunkOfUntruncated(doc) ==
    IF ~doc.content_is_null /\ doc.content # << >> /\ Len(doc.content) > MinContentLen
    THEN << [document_id |-> doc.id,
             content |-> doc.content,
             similarity |-> DefaultSimilarity] >>
    ELSE << >>

\* The loop body of _fallback_document_search (lines 101-110): the pseudo-chunks
\* of one fetched row.
FallbackChunkOf(doc) ==
    IF ~doc.content_is_null /\ doc.content # << >> /\ Len(doc.content) > MinContentLen
    THEN << [document_id |-> doc.id,
             content |-> Prefix(doc.content, MaxContextChars),
             similarity |-> DefaultSimilarity] >>
    ELSE << >>

RECURSIVE FallbackChunks(_)
FallbackChunks(rows) ==
    IF rows = << >> THEN << >>
    ELSE FallbackChunkOf(Head(rows)) \o FallbackChunks(Tail(rows))

\* The query of _fallback_document_search: eq("notebook_id", ..), and in_("id", ..)
\* when selected_document_ids is truthy.
FallbackQuery(docs, notebook_id, selected_document_ids) ==
    LET InNotebook(r) == r.notebook_id = notebook_id
        Selected(r) == r.id \in selected_document_ids
        q == SelectSeq(docs, InNotebook)
    IN IF selected_document_ids # {} THEN SelectSeq(q, Selected) ELSE q

FallbackDocumentSearch(docs, notebook_id, selected_document_ids) ==
    FallbackChunks(FallbackQuery(docs, notebook_id, selected_document_ids))

\* ------------------------------------------------------- context assembly
\* rag_service.py:135-136: document_info.get(document_id, {}).get("filename",
\* "Unknown Document").
DocName(document_info, document_id) ==
    IF document_id \in DOMAIN document_info
    THEN document_info[document_id].filename
    ELSE UnknownDocument

\* A context that leaves out the chunks whose document has no metadata.
MutContextPartsSkipsUnknown(chunks, document_info) ==
    LET Known(ch) == ch.document_id \in DOMAIN document_info
        kept == SelectSeq(chunks, Known)
    IN [j \in 1..Len(kept) |->
          DocumentOpen \o document_info[kept[j].document_id].filename \o DocumentClose
            \o kept[j].content \o <<"\n">>]

\* The loop of _prepare_context (lines 133-141): context_parts, one formatted
\* string f"[Document: {doc_name}]\n{content}\n" per chunk.
ContextParts(chunks, document_info) ==
    [j \in 1..Len(chunks) |->
        DocumentOpen \o DocName(document_info, chunks[j].document_id) \o DocumentClose
          \o chunks[j].content \o <<"\n">>]

\* _prepare_context (lines 129-143).
PrepareContext(chunks, document_info) ==
    Join(ContextSeparator, ContextParts(chunks, document_info))

\* ------------------------------------------------------ citation extraction
RECURSIVE LStrip(_)
LStrip(s) ==
    IF s # << >> /\ Head(s) \in Whitespace THEN LStrip(Tail(s)) ELSE s

RECURSIVE RStrip(_)
RStrip(s) ==
    IF s # << >> /\ s[Len(s)] \in Whitespace THEN RStrip(SubSeq(s, 1, Len(s) - 1)) ELSE s

\* str.strip()
Strip(s) == RStrip(LStrip(s))

\* The index of the first "]" of text at or after index k, 0 when there is none.
RECURSIVE FirstClose(_, _)
FirstClose(text, k) ==
    IF k > Len(text) THEN 0
    ELSE IF text[k] = "]" THEN k
    ELSE FirstClose(text, k + 1)

\* A match of citation_pattern r'\[Document: ([^\]]+)\]' (line 226) beginning at
\* index p: the index of its closing "]", 0 when the pattern does not match at p.
\* The group takes the characters up to the first "]" and must take at least one.
MatchEnd(text, p) ==
    IF p + Len(DocumentOpen) - 1 <= Len(text)
       /\ SubSeq(text, p, p + Len(DocumentOpen) - 1) = DocumentOpen
    THEN LET q == FirstClose(text, p + Len(DocumentOpen))
         IN IF q > p + Len(DocumentOpen) THEN q ELSE 0
    ELSE 0

\* re.findall(citation_pattern, text) from index p on (line 227): the groups of
\* the matches found scanning left to right, each scan resuming after the match.
RECURSIVE FindAll(_, _)
FindAll(text, p) ==
    IF p > Len(text) THEN << >>
    ELSE LET q == MatchEnd(text, p)
         IN IF q # 0
            THEN <<SubSeq(text, p + Len(DocumentOpen), q - 1)>> \o FindAll(text, q + 1)
            ELSE FindAll(text, p + 1)

\* An extraction that cites each reference once.
MutExtractCitationsUnique(response_text) ==
    LET matches == FindAll(response_text, 1)
        First(j) == \A i \in 1..(j - 1) : Strip(matches[i]) # Strip(matches[j])
        kept == SelectSeq([j \in 1..Len(matches) |-> [at |-> j, m |-> matches[j]]],
                          LAMBDA x : First(x.at))
    IN [j \in 1..Len(kept) |-> [type |-> "document", reference |-> Strip(kept[j].m)]]

\* _extract_citations (lines 220-236).
ExtractCitations(response_text) ==
    LET matches == FindAll(response_text, 1)
    IN [j \in 1..Len(matches) |->
          [type |-> "document", reference |-> Strip(matches[j])]]

\* ------------------------------------------------------------ the calls
\* settings.llm_model (config.py:28): the default, or a deployment's override that
\* names one of the built-in fallbacks.
LlmModels == {"gemini-2.0-flash-exp", "gemini-2.5-pro"}

\* RAGService.__init__: the candidate list, the configured model first.
ModelFallbacks(llm_model) ==
    <<llm_model, "gemini-2.5-pro", "gemini-2.5-flash", "gemini-2.5-flash-lite">>

\* What a generation attempt can fail with: asyncio.wait_for expiring ("timeout",
\* re-raised at line 187), a 429/quota answer, a 500/503 answer, a 404 answer, a
\* response whose .text raises ("blocked"), anything else.
ErrorKinds == {"timeout", "rate_limit", "unavailable", "not_found", "blocked", "other"}

\* The texts a model can answer with.
AnswerTexts ==
    { <<"X", " ">> \o DocumentOpen \o <<"s", "]", ".">>, <<"N", "o", ".">> }

NoError == [model_index |-> 0, kind |-> "none"]

\* No chunk index: the loop of create_embeddings ran to its end.
NoChunk == 0 - 1

\* No document id: uuid4 values start at 1.
NoDocument == 0

\* A call slot before the call: the locals of generate_response and of
\* _generate_llm_response, and what the call has done so far.
IdleCall ==
    [kind |-> "none",              \* "rag": generate_response; "llm": _generate_llm_response
     pc |-> "idle",                \* idle, await_generate, returned, raised
     notebook_id |-> None, user_id |-> None, selected_document_ids |-> {},
     search_kwargs |-> {},         \* the keywords of the search_similar call, once bound
     search_result |-> << >>,      \* what search_similar returned
     fallback_invoked |-> FALSE,
     relevant_chunks |-> << >>,
     i |-> 0,                      \* index of the candidate being awaited
     attempts |-> << >>,           \* the candidates tried, in the order tried
     last_error |-> NoError,
     response_text |-> << >>,
     citations |-> << >>,
     answered_by |-> 0,            \* index of the candidate whose attempt answered
     metadata |-> [retrieved_chunks |-> 0, documents_referenced |-> {}, model_used |-> None],
     refused |-> {},               \* upload: the chunks whose insert was logged as failed
     failed_at |-> NoChunk,        \* upload: the chunk at which create_embeddings raised
     failure |-> None,             \* upload: the call that raised at that chunk
     document_id |-> NoDocument,   \* upload: the id given to the document
     embedding_id |-> NoBatch,     \* upload: the batch id create_embeddings generated
     chunks |-> << >>,             \* upload: the chunks create_embeddings loops over
     error |-> None,               \* the exception the call raised
     wrapped |-> NoError]          \* the failure the terminal error wraps

\* ------------------------------------------------------ answer generator
\* The except clause of _generate_llm_response (lines 200-215): the branch the
\* lower-cased message selects.
ErrorBranch(kind) ==
    IF kind \in {"timeout", "rate_limit", "unavailable"} THEN "transient"
    ELSE IF kind = "not_found" THEN "not_found"
    ELSE "unknown"

\* A generator that surfaces an unclassified error instead of falling back.
MutFailureStepFatal(branch) ==
    IF branch = "unknown" THEN "raise" ELSE "continue"

\* What each branch does: lines 208, 211, 215. Every branch continues; a branch
\* that did not would end the call with the candidate's error.
FailureStep(branch) ==
    CASE branch = "transient" -> "continue"
      [] branch = "not_found" -> "continue"
      [] OTHER -> "continue"

\* A loop that gives up one candidate before the end of the list.
MutNextCandidateStopsEarly(fallbacks, i) ==
    IF i + 1 < Len(fallbacks) THEN i + 1 ELSE 0

\* A loop that starts over at the first candidate when the list is exhausted.
MutNextCandidateStartsOver(fallbacks, i) ==
    IF i < Len(fallbacks) THEN i + 1 ELSE 1

\* enumerate(self.model_fallbacks): the candidate after candidate i, 0 when the
\* list is exhausted.
NextCandidate(fallbacks, i) ==
    IF i < Len(fallbacks) THEN i + 1 ELSE 0

\* A generator that always reports the configured model.
MutModelRecordedPrimary(fallbacks, i) == fallbacks[1]

\* Line 193: the value stored in self.current_model on success of candidate i.
ModelRecorded(fallbacks, i) == fallbacks[i]

\* _generate_llm_response up to its first suspension: the prompt is built and the
\* first candidate's generate_content_async is awaited under wait_for.
StartGeneration(call) ==
    [call EXCEPT !.pc = "await_generate", !.i = 1, !.attempts = <<1>>,
                 !.last_error = NoError]

\* Lines 189-198: the awaited attempt answered; the method returns the text and
\* the citations extracted from it, and its frame (last_error) is gone.
AttemptSucceeded(call, text) ==
    [call EXCEPT !.pc = "returned", !.response_text = text,
                 !.citations = ExtractCitations(text), !.answered_by = call.i,
                 !.last_error = NoError]

\* Lines 200-218: the awaited attempt failed with an error of `kind`.
AttemptFailed(call, fallbacks, kind) ==
    LET err == [model_index |-> call.i, kind |-> kind]
        next == NextCandidate(fallbacks, call.i)
    IN IF FailureStep(ErrorBranch(kind)) = "continue"
       THEN IF next # 0
            THEN [call EXCEPT !.last_error = err, !.i = next,
                              !.attempts = Append(call.attempts, next)]
            ELSE [call EXCEPT !.last_error = err, !.pc = "raised",
                              !.error = "AllModelsFailed", !.wrapped = err]
       ELSE [call EXCEPT !.last_error = err, !.pc = "raised",
                         !.error = "GenerationError", !.wrapped = err]

\* test_fallback.py:39 calls _generate_llm_response on the service directly.
GenerateLlmResponse(c) ==
    /\ calls[c].pc = "idle"
    /\ calls' = [calls EXCEPT ![c] = StartGeneration([IdleCall EXCEPT !.kind = "llm"])]
    /\ UNCHANGED <<store, documents, model_fallbacks, current_model, applied>>

AttemptSucceeds(c) ==
    /\ calls[c].pc = "await_generate"
    /\ \E text \in AnswerTexts :
         calls' = [calls EXCEPT ![c] = AttemptSucceeded(calls[c], text)]
    /\ current_model' = ModelRecorded(model_fallbacks, calls[c].i)
    /\ UNCHANGED <<store, documents, model_fallbacks, applied>>

AttemptFails(c) ==
    /\ calls[c].pc = "await_generate"
    /\ \E kind \in ErrorKinds :
         calls' = [calls EXCEPT ![c] = AttemptFailed(calls[c], model_fallbacks, kind)]
    /\ UNCHANGED <<store, documents, model_fallbacks, current_model, applied>>

\* ------------------------------------------------------------ retrieval
\* The parameters of EmbeddingService.search_similar (embedding_service.py:59),
\* and those without a default.
SearchSimilarParams == {"query", "notebook_id", "user_id", "limit"}
SearchSimilarRequired == {"query", "notebook_id", "user_id"}

\* The keywords generate_response passes to search_similar (rag_service.py:36-42).
GenerateResponseSearchKwargs ==
    {"query", "notebook_id", "user_id", "limit", "selected_document_ids"}

\* Python's binding of a keyword-only call to a signature without **kwargs: the
\* call raises TypeError unless every keyword is a parameter and every parameter
\* without a default is given.
CallBinds(kwargs, params, required) ==
    kwargs \subseteq params /\ required \subseteq kwargs

\* A handler that answers with an empty text instead of raising.
MutTerminalErrorSwallowed(call, exc) ==
    [call EXCEPT !.pc = "returned", !.error = exc]

\* The except clause of generate_response (lines 80-84): whatever a stage raised
\* is printed and one exception is raised to the caller; nothing is returned.
TerminalError(call, exc) ==
    [call EXCEPT !.pc = "raised", !.error = exc]

\* generate_response (rag_service.py:24-84) up to its first suspension. The call
\* of search_similar at lines 36-42 is bound before anything is awaited; a
\* TypeError raised by the binding is caught at line 80 and re-raised as the
\* call's terminal error (line 84), all in the step that entered the method.
\* Lines 43-78 run only after search_similar has been entered.
SearchSimilarCalled(call) ==
    IF CallBinds(GenerateResponseSearchKwargs, SearchSimilarParams,
                 SearchSimilarRequired)
    THEN [call EXCEPT !.pc = "await_search",
                      !.search_kwargs = GenerateResponseSearchKwargs]
    ELSE TerminalError(call, "TypeError")

GenerateResponse(c) ==
    /\ calls[c].pc = "idle"
    /\ \E nb \in NotebookIds, u \in UserIds, sel \in SUBSET DocIds :
         LET call == [IdleCall EXCEPT !.kind = "rag", !.notebook_id = nb,
                                      !.user_id = u, !.selected_document_ids = sel]
         IN calls' = [calls EXCEPT ![c] = SearchSimilarCalled(call)]
    /\ UNCHANGED <<store, documents, model_fallbacks, current_model, applied>>

\* ------------------------------------------------------- specifications
\* The titles a notebook is given (schemas.py:44-49).
Titles == {"t1", "t2"}

\* A row of table notebooks (notebooks.py:33-40).
NotebookRow(id, user, title) == [id |-> id, user_id |-> user, title |-> title]

\* Two notebooks, each of a user of its own.
TwoNotebooks == { NotebookRow("n1", "u1", "t1"), NotebookRow("n2", "u2", "t1") }

\* The store before any upload: two notebooks of two users, no chunk, no chat
\* record, no note, no identifier issued.
InitStore ==
    /\ document_embeddings = {}
    /\ notebooks = TwoNotebooks
    /\ chat_history = {}
    /\ notes = {}
    /\ uuids = 0

NotApplied == [fn |-> "none", notebook_id |-> None, selected_document_ids |-> {},
               result |-> << >>]

\* The server: the one RAGService of chat.py:11, whose generate_response every
\* chat request calls, over a store holding any documents (content NULL, or just
\* below or just above the fallback's minimum length).
Init ==
    /\ documents \in Tables({MinContentLen, MinContentLen + 1})
    /\ \E m \in LlmModels : model_fallbacks = ModelFallbacks(m)
    /\ current_model = None
    /\ calls = [c \in CallIds |-> IdleCall]
    /\ applied = NotApplied
    /\ InitStore

Next == \E c \in CallIds : GenerateResponse(c)

Spec == Init /\ [][Next]_vars

\* The answer generator entered directly, as test_fallback.py does on a service
\* of its own; the calls may overlap. The generator reads no table.
InitGenerator ==
    /\ documents = << >>
    /\ \E m \in LlmModels : model_fallbacks = ModelFallbacks(m)
    /\ current_model = None
    /\ calls = [c \in CallIds |-> IdleCall]
    /\ applied = NotApplied
    /\ InitStore

NextGenerator ==
    \E c \in CallIds :
        \/ GenerateLlmResponse(c)
        \/ AttemptSucceeds(c)
        \/ AttemptFails(c)

SpecGenerator == InitGenerator /\ [][NextGenerator]_vars

\* _fallback_document_search applied to a store and arguments of any shape.
InitFallback ==
    /\ documents \in Tables(ContentLens)
    /\ model_fallbacks = ModelFallbacks("gemini-2.0-flash-exp")
    /\ current_model = None
    /\ calls = [c \in CallIds |-> IdleCall]
    /\ applied = NotApplied
    /\ InitStore

ApplyFallbackDocumentSearch ==
    /\ \E nb \in NotebookIds, sel \in SUBSET DocIds :
         applied' = [fn |-> "_fallback_document_search", notebook_id |-> nb,
                     selected_document_ids |-> sel,
                     result |-> FallbackDocumentSearch(documents, nb, sel)]
    /\ UNCHANGED <<store, documents, model_fallbacks, current_model, calls>>

NextFallback == ApplyFallbackDocumentSearch

SpecFallback == InitFallback /\ [][NextFallback]_vars

\* The state of a process that only applies a helper: no table is read and no
\* call is in progress.
InitHelper ==
    /\ documents = << >>
    /\ model_fallbacks = ModelFallbacks("gemini-2.0-flash-exp")
    /\ current_model = None
    /\ calls = [c \in CallIds |-> IdleCall]
    /\ applied = NotApplied
    /\ InitStore

\* The file names and chunk texts the context is assembled from.
FileNames == {<<"s">>, <<"r", ".", "p">>}
ChunkTexts == {<< >>, <<"x", "\n", "y">>}

\* The retrieval results of at most MaxChunks chunks (the rows of match_documents,
\* embedding_service.py:95-102).
RetrievedChunks ==
    UNION { [1..n -> [document_id : DocIds, content : ChunkTexts,
                      similarity : {DefaultSimilarity}]] : n \in 0..MaxChunks }

\* What _get_document_info returns (rag_service.py:114-127): a dict from the ids
\* of some documents to their filename and file_type.
DocumentInfos ==
    UNION { [ids -> [filename : FileNames, file_type : {"txt"}]] : ids \in SUBSET DocIds }

\* _prepare_context applied once to retrieval results and metadata of any shape.
ApplyPrepareContext ==
    /\ applied.fn = "none"
    /\ \E chunks \in RetrievedChunks, document_info \in DocumentInfos :
         applied' = [fn |-> "_prepare_context", chunks |-> chunks,
                     document_info |-> document_info,
                     result |-> PrepareContext(chunks, document_info)]
    /\ UNCHANGED <<store, documents, model_fallbacks, current_model, calls>>

NextContext == ApplyPrepareContext

SpecContext == InitHelper /\ [][NextContext]_vars

\* The pieces an answer text is made of: the opening of a citation, a name and its
\* closing bracket, a name between blanks and its closing bracket, a closing
\* bracket alone, a letter.
TextPieces ==
    {DocumentOpen, <<"a", "]">>, <<" ", "b", " ", "]">>, <<"]">>, <<"x">>}



\* The answer texts of at most MaxPieces pieces.
PieceTexts ==
    UNION { { Join(<< >>, ps) : ps \in [1..n -> TextPieces] } : n \in 0..MaxPieces }

\* _extract_citations applied once to an answer text of any shape.
ApplyExtractCitations ==
    /\ applied.fn = "none"
    /\ \E text \in PieceTexts :
         applied' = [fn |-> "_extract_citations", text |-> text,
                     result |-> ExtractCitations(text)]
    /\ UNCHANGED <<store, documents, model_fallbacks, current_model, calls>>

NextCitations == ApplyExtractCitations

SpecCitations == InitHelper /\ [][NextCitations]_vars

\* The words of the uploaded texts: the word at position j names the position.
Digits == <<"1", "2", "3", "4", "5", "6", "7", "8", "9">>
Word(j) == <<"w", Digits[j]>>

\* The blanks between two words, and those around the text.
Gaps == {<<" ">>, <<" ", "\n", "\t">>}
Margins == {<< >>, <<"\n", " ">>}

\* A text of n words with the same gap between neighbours and the same margin at
\* both ends; n = 0 gives the empty and the blank-only texts.
TextOf(n, gap, margin) ==
    margin \o Join(gap, [j \in 1..n |-> Word(j)]) \o margin

\* settings.chunk_size and settings.chunk_overlap (config.py:24-25), scaled: any
\* window of at most MaxChunkSize words with a smaller overlap.
ChunkSettings ==
    { cs \in [chunk_size : 1..MaxChunkSize, chunk_overlap : 0..MaxChunkSize] :
        cs.chunk_overlap < cs.chunk_size }

\* _split_into_chunks applied once to a text of any number of words under any
\* setting.
ApplySplitIntoChunks ==
    /\ applied.fn = "none"
    /\ \E n \in 0..MaxWords, gap \in Gaps, margin \in Margins, cs \in ChunkSettings :
         applied' = [fn |-> "_split_into_chunks",
                     words |-> [j \in 1..n |-> Word(j)],
                     content |-> TextOf(n, gap, margin),
                     chunk_size |-> cs.chunk_size, overlap |-> cs.chunk_overlap,
                     result |-> SplitIntoChunks(TextOf(n, gap, margin),
                                                cs.chunk_size, cs.chunk_overlap)]
    /\ UNCHANGED <<store, documents, model_fallbacks, current_model, calls>>

NextChunker == ApplySplitIntoChunks

SpecChunker == InitHelper /\ [][NextChunker]_vars

\* -------------------------------------------------- uploads and deletions
\* uuid.uuid4(): an identifier that was never issued before.
Uuid4(issued) == issued + 1

\* genai.embed_content (embedding_service.py:139-145): the vector of a text, a
\* function of the text.
Embedding(text) == [model |-> "models/text-embedding-004", content |-> text]

\* What can happen to one chunk in the loop of create_embeddings: embedded and
\* inserted; embedded and the insert answering without data (lines 45-46);
\* _generate_embedding raising (line 31); embedded and the insert's execute()
\* raising (line 44).
ChunkOutcomes == {"ok", "refused", "embed_raises", "insert_raises"}

Raising == {"embed_raises", "insert_raises"}

\* A loop that gives every chunk a batch id of its own.
MutChunkRowOwnBatch(embedding_id, document_id, i, chunk) ==
    [id |-> <<embedding_id, i>>, embedding_id |-> embedding_id + i,
     document_id |-> document_id, chunk_index |-> i, content |-> chunk,
     embedding |-> Embedding(chunk)]

\* chunk_data (lines 35-42). The row's own uuid4 is written as the pair of batch
\* and index, which no other row has.
ChunkRow(embedding_id, document_id, i, chunk) ==
    [id |-> <<embedding_id, i>>, embedding_id |-> embedding_id,
     document_id |-> document_id, chunk_index |-> i, content |-> chunk,
     embedding |-> Embedding(chunk)]

\* The first chunk at which the loop raises, 0 when it raises at none.
FailedAt(outcomes) ==
    IF \E j \in DOMAIN outcomes : outcomes[j] \in Raising
    THEN CHOOSE j \in DOMAIN outcomes :
            /\ outcomes[j] \in Raising
            /\ \A i \in 1..(j - 1) : outcomes[i] \notin Raising
    ELSE 0

\* The call that raised inside the loop, None when none did.
FailureOf(outcomes) ==
    IF FailedAt(outcomes) = 0 THEN None
    ELSE IF outcomes[FailedAt(outcomes)] = "embed_raises" THEN "_generate_embedding"
    ELSE "insert"

\* A loop that skips a chunk whose embedding raised and goes on with the next.
MutCreateEmbeddingsSkipsFailed(table, issued, document_id, content, outcomes, settings) ==
    LET chunks == SplitIntoChunks(content, settings.chunk_size, settings.chunk_overlap)
        embedding_id == Uuid4(issued)
        failed == FailedAt(outcomes)
        rows == { ChunkRow(embedding_id, document_id, j - 1, chunks[j]) :
                    j \in { i \in 1..Len(chunks) : outcomes[i] = "ok" } }
    IN [returned |-> failed = 0,
        embedding_id |-> embedding_id,
        table |-> table \cup rows,
        refused |-> { j - 1 : j \in { i \in 1..Len(chunks) : outcomes[i] = "refused" } },
        failed_at |-> failed - 1,
        failure |-> FailureOf(outcomes),
        issued |-> issued + 1]

\* create_embeddings (embedding_service.py:16-57) on the chunk table `table`, with
\* `issued` identifiers issued so far and the given outcome per chunk: the chunks
\* are processed in order up to the first whose embedding raises; each one
\* processed is inserted unless the insert is refused. The method has no
\* suspension point: it runs in one step.
CreateEmbeddings(table, issued, document_id, content, outcomes, settings) ==
    LET chunks == SplitIntoChunks(content, settings.chunk_size, settings.chunk_overlap)
        embedding_id == Uuid4(issued)
        failed == FailedAt(outcomes)
        done == IF failed = 0 THEN 1..Len(chunks) ELSE 1..(failed - 1)
        rows == { ChunkRow(embedding_id, document_id, j - 1, chunks[j]) :
                    j \in { i \in done : outcomes[i] = "ok" } }
    IN [returned |-> failed = 0,
        embedding_id |-> embedding_id,
        table |-> table \cup rows,
        refused |-> { j - 1 : j \in { i \in done : outcomes[i] = "refused" } },
        failed_at |-> failed - 1,
        failure |-> FailureOf(outcomes),
        issued |-> issued + 1]

\* A deletion without its filter.
MutDeleteEmbeddingsAll(table, embedding_id) == {}

\* delete_embeddings (lines 110-115): delete().eq("embedding_id", embedding_id).
DeleteEmbeddings(table, embedding_id) ==
    { r \in table : r.embedding_id # embedding_id }

\* settings.chunk_size and settings.chunk_overlap of the store's deployment,
\* scaled to the uploaded texts.
StoreSettings == [chunk_size |-> 2, chunk_overlap |-> 1]

\* The row upload_document inserts (documents.py:83-90): no embedding_id yet.
NewDocument(document_id, notebook_id, content) ==
    [id |-> document_id, notebook_id |-> notebook_id, filename |-> UploadName,
     content_is_null |-> FALSE, content |-> content, embedding_id |-> NoBatch]

\* select("*").eq("id", notebook_id).eq("user_id", user) returns a row.
OwnsNotebook(user, notebook_id) ==
    \E r \in notebooks : r.id = notebook_id /\ r.user_id = user

\* upload_document (documents.py:51-128) up to its suspension: the ownership
\* check, 404 when it fails, then process_file is awaited.
UploadDocument(c) ==
    /\ c <= MaxUploads
    /\ calls[c].pc = "idle"
    /\ \A b \in 1..(c - 1) : calls[b].pc # "idle"
    /\ \E nb \in NotebookIds, u \in UserIds :
         LET call == [IdleCall EXCEPT !.kind = "upload", !.notebook_id = nb,
                                      !.user_id = u]
         IN calls' = [calls EXCEPT ![c] =
              IF OwnsNotebook(u, nb)
              THEN [call EXCEPT !.pc = "await_process_file"]
              ELSE [call EXCEPT !.pc = "raised", !.error = "404"]]
    /\ UNCHANGED <<store, documents, model_fallbacks, current_model, applied>>

\* process_file raised (an unsupported or unreadable file): the outer handler
\* answers 400 (lines 120-128); nothing was written.
ProcessFileRaises(c) ==
    /\ calls[c].kind = "upload"
    /\ calls[c].pc = "await_process_file"
    /\ calls' = [calls EXCEPT ![c] = [@ EXCEPT !.pc = "raised", !.error = "400"]]
    /\ UNCHANGED <<store, documents, model_fallbacks, current_model, applied>>

\* upload_document from the return of process_file to its end (lines 76-128): the
\* document row is inserted, create_embeddings runs, and when it returned the
\* batch id is written to the row; when it raised the handler answers 400 and
\* undoes nothing.
ProcessFileReturns(c) ==
    /\ calls[c].kind = "upload"
    /\ calls[c].pc = "await_process_file"
    /\ \E n \in 0..MaxUploadWords :
         LET content == TextOf(n, <<" ">>, << >>)
             document_id == Uuid4(uuids)
             doc == NewDocument(document_id, calls[c].notebook_id, content)
             k == Len(SplitIntoChunks(content, StoreSettings.chunk_size,
                                      StoreSettings.chunk_overlap))
         IN \E outcomes \in [1..k -> ChunkOutcomes] :
              LET ce == CreateEmbeddings(document_embeddings, uuids + 1, document_id,
                                         content, outcomes, StoreSettings)
              IN /\ documents' =
                      Append(documents,
                             IF ce.returned
                             THEN [doc EXCEPT !.embedding_id = ce.embedding_id]
                             ELSE doc)
                 /\ document_embeddings' = ce.table
                 /\ uuids' = ce.issued
                 /\ calls' = [calls EXCEPT ![c] =
                      IF ce.returned
                      THEN [@ EXCEPT !.pc = "returned", !.refused = ce.refused]
                      ELSE [@ EXCEPT !.pc = "raised", !.error = "400",
                                     !.refused = ce.refused,
                                     !.failed_at = ce.failed_at,
                                     !.failure = ce.failure]]
    /\ UNCHANGED <<notebooks, chat_history, notes, model_fallbacks, current_model,
                   applied>>

\* ---- the handlers that answer in one step
\* The tables as a record, for the handlers that answer in one step.
Db ==
    [documents |-> documents, document_embeddings |-> document_embeddings,
     notebooks |-> notebooks, chat_history |-> chat_history, notes |-> notes,
     uuids |-> uuids]

\* No chat record linked (NoteCreate.linked_chat_id = None).
NoChat == 0

\* The texts of notes and the prompts of chat messages.
NoteContents == {"c1", "c2"}

\* A row of chat_history (chat.py:38-45) and a row of notes (notes.py:35-42).
ChatRecord(id, notebook_id, ai_response, metadata) ==
    [id |-> id, notebook_id |-> notebook_id, user_prompt |-> "q",
     ai_response |-> ai_response, metadata |-> metadata]

NoteRow(id, notebook_id, content, linked_chat_id) ==
    [id |-> id, notebook_id |-> notebook_id, content |-> content,
     linked_chat_id |-> linked_chat_id]

\* HTTPException(404) before any write, and a handler's normal return.
NotFound == [status |-> 404, cause |-> None, db |-> Db]

Ok(db) == [status |-> 200, cause |-> None, db |-> db]

\* A check that asks for the row only, whoever owns its notebook.
MutOwnedRowsOfAnyUser(rows, id, user) == { r \in rows : r.id = id }

\* select("*, notebooks!inner(user_id)").eq("id", id) on a table returns a row
\* whose notebook belongs to the user.
OwnedRows(rows, id, user) ==
    { r \in rows : r.id = id /\ OwnsNotebook(user, r.notebook_id) }

DocumentRows == { documents[j] : j \in 1..Len(documents) }

\* An update that writes the new name into the chunks of the document as well.
MutUpdateDocumentResultRewritesChunks(document_id, user, filename) ==
    IF OwnedRows(DocumentRows, document_id, user) = {} THEN NotFound
    ELSE Ok([Db EXCEPT
               !.documents =
                   [j \in DOMAIN documents |->
                      IF documents[j].id = document_id
                      THEN [documents[j] EXCEPT !.filename = filename]
                      ELSE documents[j]],
               !.document_embeddings =
                   { IF r.document_id = document_id
                     THEN [r EXCEPT !.content = filename] ELSE r :
                       r \in document_embeddings }])

\* update_document (documents.py:163-181).
UpdateDocumentResult(document_id, user, filename) ==
    IF OwnedRows(DocumentRows, document_id, user) = {} THEN NotFound
    ELSE Ok([Db EXCEPT !.documents =
               [j \in DOMAIN documents |->
                  IF documents[j].id = document_id
                  THEN [documents[j] EXCEPT !.filename = filename]
                  ELSE documents[j]]])

\* delete_document (documents.py:183-207): the batch is deleted when the row has
\* an embedding_id, a failure of that deletion being printed only; then the row
\* is deleted.
DeleteDocumentResult(document_id, user, batch_delete) ==
    IF OwnedRows(DocumentRows, document_id, user) = {} THEN NotFound
    ELSE LET doc == CHOOSE r \in OwnedRows(DocumentRows, document_id, user) : TRUE
             Others(r) == r.id # document_id
         IN Ok([Db EXCEPT
                  !.document_embeddings =
                      IF doc.embedding_id # NoBatch /\ batch_delete = "ok"
                      THEN DeleteEmbeddings(document_embeddings, doc.embedding_id)
                      ELSE document_embeddings,
                  !.documents = SelectSeq(documents, Others)])

\* update_notebook (notebooks.py:53-71).
UpdateNotebookResult(notebook_id, user, title) ==
    IF ~OwnsNotebook(user, notebook_id) THEN NotFound
    ELSE Ok([Db EXCEPT !.notebooks =
               { IF r.id = notebook_id THEN [r EXCEPT !.title = title] ELSE r :
                   r \in notebooks }])

\* delete_notebook (notebooks.py:73-94): the notebook's documents, chat records
\* and notes are deleted, then the notebook.
DeleteNotebookResult(notebook_id, user) ==
    IF ~OwnsNotebook(user, notebook_id) THEN NotFound
    ELSE LET Elsewhere(r) == r.notebook_id # notebook_id
         IN Ok([Db EXCEPT
                  !.documents = SelectSeq(documents, Elsewhere),
                  !.chat_history = { r \in chat_history : Elsewhere(r) },
                  !.notes = { r \in notes : Elsewhere(r) },
                  !.notebooks = { r \in notebooks : r.id # notebook_id }])

\* A handler that saves a chat record whatever generate_response did.
MutSaveChatAlways(db, generated) ==
    [db EXCEPT
       !.chat_history = db.chat_history \cup
           { ChatRecord(Uuid4(db.uuids), generated.notebook_id,
                        generated.response_text, generated.metadata) },
       !.uuids = db.uuids + 1]

\* send_message after generate_response (chat.py:35-47): reached when
\* generate_response has returned, the record holds its answer and metadata.
SaveChat(db, generated) ==
    IF generated.pc = "returned"
    THEN [db EXCEPT
            !.chat_history = db.chat_history \cup
                { ChatRecord(Uuid4(db.uuids), generated.notebook_id,
                             generated.response_text, generated.metadata) },
            !.uuids = db.uuids + 1]
    ELSE db

\* send_message (chat.py:13-60) up to its first suspension or, when nothing
\* suspends, to its end: 404 for a notebook not of the user; generate_response
\* is called; what it raises is answered with 500 (lines 56-60); status 0 is a
\* request still awaited.
SendMessageResult(notebook_id, user, selected_document_ids) ==
    IF ~OwnsNotebook(user, notebook_id) THEN NotFound
    ELSE LET generated ==
                 SearchSimilarCalled([IdleCall EXCEPT
                     !.kind = "rag", !.notebook_id = notebook_id, !.user_id = user,
                     !.selected_document_ids = selected_document_ids])
         IN [status |-> CASE generated.pc = "raised" -> 500
                          [] generated.pc = "returned" -> 200
                          [] OTHER -> 0,
             cause |-> generated.error,
             db |-> SaveChat(Db, generated)]

\* delete_chat_message (chat.py:78-94).
DeleteChatMessageResult(chat_id, user) ==
    IF OwnedRows(chat_history, chat_id, user) = {} THEN NotFound
    ELSE Ok([Db EXCEPT !.chat_history = { r \in chat_history : r.id # chat_id }])

\* clear_chat_history (chat.py:96-112).
ClearChatHistoryResult(notebook_id, user) ==
    IF ~OwnsNotebook(user, notebook_id) THEN NotFound
    ELSE Ok([Db EXCEPT !.chat_history =
               { r \in chat_history : r.notebook_id # notebook_id }])

\* create_note (notes.py:11-51): a linked chat record has to be one of the same
\* notebook.
CreateNoteResult(notebook_id, user, content, linked_chat_id) ==
    IF ~OwnsNotebook(user, notebook_id) THEN NotFound
    ELSE IF /\ linked_chat_id # NoChat
            /\ ~\E r \in chat_history :
                   r.id = linked_chat_id /\ r.notebook_id = notebook_id
    THEN NotFound
    ELSE Ok([Db EXCEPT
               !.notes = notes \cup
                   { NoteRow(Uuid4(uuids), notebook_id, content, linked_chat_id) },
               !.uuids = uuids + 1])

\* create_note_from_chat (notes.py:124-157).
CreateNoteFromChatResult(chat_id, user) ==
    IF OwnedRows(chat_history, chat_id, user) = {} THEN NotFound
    ELSE LET chat == CHOOSE r \in OwnedRows(chat_history, chat_id, user) : TRUE
         IN Ok([Db EXCEPT
                  !.notes = notes \cup
                      { NoteRow(Uuid4(uuids), chat.notebook_id, chat.ai_response,
                                chat_id) },
                  !.uuids = uuids + 1])

\* update_note (notes.py:86-104).
UpdateNoteResult(note_id, user, content) ==
    IF OwnedRows(notes, note_id, user) = {} THEN NotFound
    ELSE Ok([Db EXCEPT !.notes =
               { IF r.id = note_id THEN [r EXCEPT !.content = content] ELSE r :
                   r \in notes }])

\* delete_note (notes.py:106-122).
DeleteNoteResult(note_id, user) ==
    IF OwnedRows(notes, note_id, user) = {} THEN NotFound
    ELSE Ok([Db EXCEPT !.notes = { r \in notes : r.id # note_id }])

\* SearchService.search (search_service.py:11-42): the keywords it passes to
\* search_similar (lines 16-20).
SearchKwargs == {"query", "notebook_id", "limit"}

\* search_documents (routes/search.py:11-37): 404 for a notebook not of the
\* user; what SearchService.search raises is answered with 500. A TypeError of
\* the call of search_similar is raised before anything is awaited.
SearchDocumentsResult(notebook_id, user) ==
    IF ~OwnsNotebook(user, notebook_id) THEN NotFound
    ELSE IF CallBinds(SearchKwargs, SearchSimilarParams, SearchSimilarRequired)
    THEN [status |-> 0, cause |-> None, db |-> Db]
    ELSE [status |-> 500, cause |-> "TypeError", db |-> Db]

\* delete_document (documents.py:183-207), which has no suspension point: 404
\* unless the document exists in a notebook of the caller; the batch is deleted
\* when the row has an embedding_id, a failure of that deletion being printed
\* only; then the row is deleted.
DeleteDocument ==
    /\ \E k \in 1..Len(documents), u \in UserIds, batch_delete \in {"ok", "raises"} :
         LET r == DeleteDocumentResult(documents[k].id, u, batch_delete)
         IN /\ document_embeddings' = r.db.document_embeddings
            /\ documents' = r.db.documents
    /\ UNCHANGED <<notebooks, chat_history, notes, uuids, model_fallbacks,
                   current_model, calls, applied>>

\* delete_notebook (notebooks.py:73-94): 404 unless the caller owns the notebook;
\* then the notebook's documents, chat records and notes are deleted, then the
\* notebook.
DeleteNotebook ==
    /\ \E nb \in NotebookIds, u \in UserIds :
         LET r == DeleteNotebookResult(nb, u)
         IN /\ documents' = r.db.documents
            /\ chat_history' = r.db.chat_history
            /\ notes' = r.db.notes
            /\ notebooks' = r.db.notebooks
    /\ UNCHANGED <<document_embeddings, uuids, model_fallbacks, current_model,
                   calls, applied>>

\* delete_embeddings applied to any batch id issued so far or never issued; the
\* store's delete can raise, which the method passes on (lines 114-115).
ApplyDeleteEmbeddings ==
    /\ applied.fn = "none"
    /\ \E embedding_id \in 1..(uuids + 1), outcome \in {"ok", "raises"} :
         LET after == IF outcome = "ok"
                      THEN DeleteEmbeddings(document_embeddings, embedding_id)
                      ELSE document_embeddings
         IN /\ document_embeddings' = after
            /\ applied' = [fn |-> "delete_embeddings", embedding_id |-> embedding_id,
                           raised |-> (outcome = "raises"),
                           before |-> document_embeddings, after |-> after]
    /\ UNCHANGED <<documents, notebooks, chat_history, notes, uuids, model_fallbacks,
                   current_model, calls>>

\* The store after one upload of a one-word document to the first notebook has
\* completed: its row with the batch id written back, and the batch's one chunk.
InitUploaded ==
    LET content == TextOf(1, <<" ">>, << >>)
        document_id == Uuid4(0)
        ce == CreateEmbeddings({}, 1, document_id, content, <<"ok">>, StoreSettings)
    IN /\ documents = << [NewDocument(document_id, "n1", content)
                             EXCEPT !.embedding_id = ce.embedding_id] >>
       /\ document_embeddings = ce.table
       /\ uuids = ce.issued
       /\ notebooks = TwoNotebooks
       /\ chat_history = {}
       /\ notes = {}
       /\ model_fallbacks = ModelFallbacks("gemini-2.0-flash-exp")
       /\ current_model = None
       /\ calls = [c \in CallIds |-> IdleCall]
       /\ applied = NotApplied

NextStore ==
    \/ \E c \in CallIds :
          \/ UploadDocument(c)
          \/ ProcessFileRaises(c)
          \/ ProcessFileReturns(c)
    \/ DeleteDocument
    \/ DeleteNotebook

\* The document and notebook routes over one store.
SpecStore == InitUploaded /\ [][NextStore]_vars

NextBatchDelete ==
    \/ \E c \in CallIds :
          \/ UploadDocument(c)
          \/ ProcessFileRaises(c)
          \/ ProcessFileReturns(c)
    \/ ApplyDeleteEmbeddings

\* delete_embeddings applied to the batches uploads have written.
SpecBatchDelete == InitUploaded /\ [][NextBatchDelete]_vars

\* -------------------------------------------------------------- routes
\* ---- SearchService.search
\* search_service.py:34: the longest content that is its own snippet.
SnippetChars == 500

Ellipsis == <<".", ".", ".">>

\* content[:500] + "..." if len(content) > 500 else content (line 34).
Snippet(content) ==
    IF Len(content) > SnippetChars
    THEN SubSeq(content, 1, SnippetChars) \o Ellipsis
    ELSE content

\* Lines 25-39: one SearchResult per chunk, in the order of the chunks.
SearchResults(similar_chunks, document_info) ==
    [k \in 1..Len(similar_chunks) |->
        [document_id |-> similar_chunks[k].document_id,
         document_name |-> DocName(document_info, similar_chunks[k].document_id),
         content_snippet |-> Snippet(similar_chunks[k].content),
         similarity_score |-> similar_chunks[k].similarity]]

\* A search whose call of search_similar names every required parameter.
MutSearchBinds(similar_chunks, document_info) ==
    [raised |-> FALSE, error |-> None,
     result |-> SearchResults(similar_chunks, document_info)]

\* search (lines 11-42), for what the vector search and the metadata query
\* would return: the call of search_similar at lines 16-20 is bound first, and a
\* TypeError of the binding is re-raised at line 42.
Search(similar_chunks, document_info) ==
    IF CallBinds(SearchKwargs, SearchSimilarParams, SearchSimilarRequired)
    THEN [raised |-> FALSE, error |-> None,
          result |-> SearchResults(similar_chunks, document_info)]
    ELSE [raised |-> TRUE, error |-> "TypeError", result |-> << >>]

\* search applied once to a notebook whose vector search yields any chunks and
\* whose documents have any metadata.
ApplySearch ==
    /\ applied.fn = "none"
    /\ \E similar_chunks \in RetrievedChunks, document_info \in DocumentInfos :
         LET r == Search(similar_chunks, document_info)
         IN applied' = [fn |-> "search", similar_chunks |-> similar_chunks,
                        document_info |-> document_info, raised |-> r.raised,
                        error |-> r.error, result |-> r.result]
    /\ UNCHANGED <<store, documents, model_fallbacks, current_model, calls>>

NextSearch == ApplySearch

SpecSearch == InitHelper /\ [][NextSearch]_vars

\* A request answered in one step: the answer is recorded and the tables are
\* what the handler left.
Answer(fn, user, table, target, r) ==
    /\ applied' = [fn |-> fn, user_id |-> user, table |-> table, target |-> target,
                   status |-> r.status, cause |-> r.cause]
    /\ documents' = r.db.documents
    /\ document_embeddings' = r.db.document_embeddings
    /\ notebooks' = r.db.notebooks
    /\ chat_history' = r.db.chat_history
    /\ notes' = r.db.notes
    /\ uuids' = r.db.uuids
    /\ UNCHANGED <<model_fallbacks, current_model, calls>>

\* The ids a request can name: those of the rows of the table it addresses, and
\* an id of no row.
TargetIds(rows) == { r.id : r \in rows } \cup {Uuid4(uuids)}

UpdateDocument ==
    /\ applied.fn = "none"
    /\ \E id \in TargetIds(DocumentRows), u \in UserIds, filename \in FileNames :
           Answer("update_document", u, "documents", id,
                  UpdateDocumentResult(id, u, filename))

DeleteDocumentAnswered ==
    /\ applied.fn = "none"
    /\ \E id \in TargetIds(DocumentRows), u \in UserIds, batch_delete \in {"ok", "raises"} :
           Answer("delete_document", u, "documents", id,
                  DeleteDocumentResult(id, u, batch_delete))

UpdateNotebook ==
    /\ applied.fn = "none"
    /\ \E nb \in NotebookIds, u \in UserIds, title \in Titles :
           Answer("update_notebook", u, "notebooks", nb, UpdateNotebookResult(nb, u, title))

DeleteNotebookAnswered ==
    /\ applied.fn = "none"
    /\ \E nb \in NotebookIds, u \in UserIds :
           Answer("delete_notebook", u, "notebooks", nb, DeleteNotebookResult(nb, u))

SendMessage ==
    /\ applied.fn = "none"
    /\ \E nb \in NotebookIds, u \in UserIds, sel \in SUBSET DocIds :
           Answer("send_message", u, "notebooks", nb, SendMessageResult(nb, u, sel))

DeleteChatMessage ==
    /\ applied.fn = "none"
    /\ \E id \in TargetIds(chat_history), u \in UserIds :
           Answer("delete_chat_message", u, "chat_history", id,
                  DeleteChatMessageResult(id, u))

ClearChatHistory ==
    /\ applied.fn = "none"
    /\ \E nb \in NotebookIds, u \in UserIds :
           Answer("clear_chat_history", u, "notebooks", nb, ClearChatHistoryResult(nb, u))

CreateNote ==
    /\ applied.fn = "none"
    /\ \E nb \in NotebookIds, u \in UserIds, content \in NoteContents,
          linked \in {NoChat} \cup TargetIds(chat_history) :
           Answer("create_note", u, "notebooks", nb, CreateNoteResult(nb, u, content, linked))

CreateNoteFromChat ==
    /\ applied.fn = "none"
    /\ \E id \in TargetIds(chat_history), u \in UserIds :
           Answer("create_note_from_chat", u, "chat_history", id,
                  CreateNoteFromChatResult(id, u))

UpdateNote ==
    /\ applied.fn = "none"
    /\ \E id \in TargetIds(notes), u \in UserIds, content \in NoteContents :
           Answer("update_note", u, "notes", id, UpdateNoteResult(id, u, content))

DeleteNote ==
    /\ applied.fn = "none"
    /\ \E id \in TargetIds(notes), u \in UserIds :
           Answer("delete_note", u, "notes", id, DeleteNoteResult(id, u))

SearchDocuments ==
    /\ applied.fn = "none"
    /\ \E nb \in NotebookIds, u \in UserIds :
           Answer("search_documents", u, "notebooks", nb, SearchDocumentsResult(nb, u))

\* The store after one upload to the first notebook, holding also one chat
\* record and one note of that notebook.
InitRoutes ==
    LET content == TextOf(1, <<" ">>, << >>)
        document_id == Uuid4(0)
        ce == CreateEmbeddings({}, 1, document_id, content, <<"ok">>, StoreSettings)
        chat_id == Uuid4(ce.issued)
        note_id == Uuid4(ce.issued + 1)
    IN /\ documents = << [NewDocument(document_id, "n1", content)
                             EXCEPT !.embedding_id = ce.embedding_id] >>
       /\ document_embeddings = ce.table
       /\ uuids = ce.issued + 2
       /\ notebooks = TwoNotebooks
       /\ chat_history = { ChatRecord(chat_id, "n1", <<"N", "o", ".">>,
                                      IdleCall.metadata) }
       /\ notes = { NoteRow(note_id, "n1", "c1", NoChat) }
       /\ model_fallbacks = ModelFallbacks("gemini-2.0-flash-exp")
       /\ current_model = None
       /\ calls = [c \in CallIds |-> IdleCall]
       /\ applied = NotApplied

\* The requests that read or write the chunk table or the documents, beside
\* uploads.
NextFrame ==
    \/ \E c \in CallIds :
          \/ UploadDocument(c)
          \/ ProcessFileRaises(c)
          \/ ProcessFileReturns(c)
    \/ UpdateDocument
    \/ DeleteDocumentAnswered
    \/ DeleteNotebookAnswered
    \/ SendMessage
    \/ SearchDocuments

SpecFrame == InitRoutes /\ [][NextFrame]_vars

NextRoutes ==
    \/ \E c \in CallIds :
          \/ UploadDocument(c)
          \/ ProcessFileRaises(c)
    \/ UpdateDocument
    \/ DeleteDocumentAnswered
    \/ UpdateNotebook
    \/ DeleteNotebookAnswered
    \/ SendMessage
    \/ DeleteChatMessage
    \/ ClearChatHistory
    \/ CreateNote
    \/ CreateNoteFromChat
    \/ UpdateNote
    \/ DeleteNote
    \/ SearchDocuments

\* The routes of the server over one store, each request up to its first
\* suspension: uploads up to the processing of the file, and one request of any
\* other route, whose answer is recorded.
SpecRoutes == InitRoutes /\ [][NextRoutes]_vars

\* ---- the upload, one store request at a time
\* upload_document from the return of process_file to the first request
\* create_embeddings sends (documents.py:76-104, embedding_service.py:19-25):
\* the document row is inserted without a batch id; create_embeddings splits the
\* content and generates the batch id.
InsertDocument(c) ==
    /\ calls[c].kind = "upload"
    /\ calls[c].pc = "await_process_file"
    /\ \E n \in 0..MaxUploadWords :
         LET content == TextOf(n, <<" ">>, << >>)
             document_id == Uuid4(uuids)
         IN /\ documents' =
                 Append(documents, NewDocument(document_id, calls[c].notebook_id, content))
            /\ uuids' = uuids + 2
            /\ calls' = [calls EXCEPT ![c] =
                 [@ EXCEPT !.pc = "create_embeddings",
                           !.document_id = document_id,
                           !.embedding_id = Uuid4(uuids + 1),
                           !.chunks = SplitIntoChunks(content, StoreSettings.chunk_size,
                                                      StoreSettings.chunk_overlap),
                           !.i = 0]]
    /\ UNCHANGED <<document_embeddings, notebooks, chat_history, notes,
                   model_fallbacks, current_model, applied>>

\* A loop that is taken to be over before its first iteration.
MutLoopDoneAtOnce(call) == TRUE

\* for i, chunk in enumerate(chunks) has no chunk left (line 28).
LoopDone(call) == call.i = Len(call.chunks)

\* A handler that deletes the rows of the batch it was writing.
MutAfterFailureRollsBack(table, call) ==
    { r \in table : r.embedding_id # call.embedding_id }

\* The chunk table after the handlers of a failure have run: the except clauses
\* of create_embeddings (lines 53-57) and of upload_document
\* (documents.py:109-128) print and raise, and send the store no request.
AfterFailure(table, call) == table

\* One iteration of the loop of create_embeddings (lines 28-48): the chunk is
\* embedded and its row inserted; an insert answering without data is printed;
\* a call that raises ends create_embeddings (53-57) and the upload, which
\* answers 400 (documents.py:109-128) and undoes nothing.
EmbedChunk(c) ==
    /\ calls[c].kind = "upload"
    /\ calls[c].pc = "create_embeddings"
    /\ ~LoopDone(calls[c])
    /\ \E outcome \in ChunkOutcomes :
         LET call == calls[c]
             row == ChunkRow(call.embedding_id, call.document_id, call.i,
                             call.chunks[call.i + 1])
         IN /\ document_embeddings' =
                 IF outcome = "ok" THEN document_embeddings \cup {row}
                 ELSE IF outcome \in Raising THEN AfterFailure(document_embeddings, call)
                 ELSE document_embeddings
            /\ calls' = [calls EXCEPT ![c] =
                 IF outcome \in Raising
                 THEN [@ EXCEPT !.pc = "raised", !.error = "400",
                                !.failed_at = call.i,
                                !.failure = FailureOf(<<outcome>>)]
                 ELSE [@ EXCEPT !.i = call.i + 1,
                                !.refused = IF outcome = "refused"
                                            THEN call.refused \cup {call.i}
                                            ELSE call.refused]]
    /\ UNCHANGED <<documents, notebooks, chat_history, notes, uuids,
                   model_fallbacks, current_model, applied>>

\* create_embeddings returns the batch id (line 51) and upload_document writes
\* it to the document's row (documents.py:107): update().eq("id", document_id),
\* which changes no row when the document has been deleted meanwhile.
WriteBatchId(c) ==
    /\ calls[c].kind = "upload"
    /\ calls[c].pc = "create_embeddings"
    /\ LoopDone(calls[c])
    /\ documents' =
         [j \in DOMAIN documents |->
            IF documents[j].id = calls[c].document_id
            THEN [documents[j] EXCEPT !.embedding_id = calls[c].embedding_id]
            ELSE documents[j]]
    /\ calls' = [calls EXCEPT ![c] = [@ EXCEPT !.pc = "returned"]]
    /\ UNCHANGED <<document_embeddings, notebooks, chat_history, notes, uuids,
                   model_fallbacks, current_model, applied>>

NextUpload ==
    \/ \E c \in CallIds :
          \/ UploadDocument(c)
          \/ ProcessFileRaises(c)
          \/ InsertDocument(c)
          \/ EmbedChunk(c)
          \/ WriteBatchId(c)
    \/ DeleteDocument

\* The uploads as the store sees them, request by request, beside deletions of
\* documents.
SpecUpload == InitUploaded /\ [][NextUpload]_vars

\* An awaited attempt comes to an end: generate_content_async answers or raises,
\* or asyncio.wait_for cancels it after 60 seconds (rag_service.py:174-187).
AttemptEnds(c) == AttemptSucceeds(c) \/ AttemptFails(c)

\* The generator of the deployed service, configured with the default model, on
\* an event loop that resumes every awaiting call.
SpecGeneratorFair ==
    /\ InitUploaded
    /\ [][NextGenerator]_vars
    /\ \A c \in CallIds : WF_vars(AttemptEnds(c))

\* The chat requests of the server over a store that holds one uploaded document
\* and its chunk.
SpecChat == InitUploaded /\ [][Next]_vars

\* ------------------------------------------------------------- claims
Finished(c) == calls[c].pc \in {"returned", "raised"}

InOrder(attempts) == attempts = [j \in 1..Len(attempts) |-> j]

\* C1: the candidates are attempted in list order starting with the first; the
\* call returns in the step in which an attempt answers, with that attempt's
\* text, having made exactly as many attempts as the answering candidate's
\* position; that step stores the answering candidate's name in current_model,
\* and a returned call attempts nothing more.
C1_State ==
    \A c \in CallIds :
        /\ InOrder(calls[c].attempts)
        /\ calls[c].pc = "await_generate" => calls[c].i = Len(calls[c].attempts)
        /\ calls[c].pc = "returned" =>
              /\ calls[c].answered_by = Len(calls[c].attempts)
              /\ calls[c].answered_by \in 1..Len(model_fallbacks)
              /\ calls[c].response_text \in AnswerTexts

C1_Step ==
    \A c \in CallIds :
        /\ calls[c].pc = "returned" => calls'[c] = calls[c]
        /\ (calls[c].pc # "returned" /\ calls'[c].pc = "returned") =>
              /\ calls[c].pc = "await_generate"
              /\ calls'[c].answered_by = calls[c].i
              /\ calls'[c].attempts = calls[c].attempts
              /\ current_model' = model_fallbacks[calls'[c].answered_by]

\* C1: candidates are tried in list order, and the first attempt that answers ends
\* the call at once with its answer and its model recorded.
C1_InOrderUntilSuccess == [] C1_State /\ [][C1_Step]_vars

\* The first two candidates failed and the third answered: three attempts, the
\* third candidate recorded.
C1_Witness ==
    \E c \in CallIds :
        /\ calls[c].pc = "returned"
        /\ calls[c].attempts = <<1, 2, 3>>
        /\ calls[c].answered_by = 3
        /\ current_model = model_fallbacks[3]

\* C2: a step in which the attempt on a candidate that is not the last fails, with
\* an error of any kind, leaves the call awaiting the next candidate; a call that
\* ended with an error had its last candidate fail.
C2_Step ==
    \A c \in CallIds :
        (/\ calls[c].pc = "await_generate"
         /\ calls[c].i < Len(model_fallbacks)
         /\ calls'[c] # calls[c]
         /\ calls'[c].pc # "returned") =>
              /\ calls'[c].pc = "await_generate"
              /\ calls'[c].i = calls[c].i + 1
              /\ calls'[c].attempts = Append(calls[c].attempts, calls[c].i + 1)
              /\ calls'[c].last_error.model_index = calls[c].i
              /\ calls'[c].last_error.kind \in ErrorKinds

C2_State ==
    \A c \in CallIds :
        calls[c].pc = "raised" => calls[c].wrapped.model_index = Len(model_fallbacks)

\* C2: a failure of any kind on a candidate that is not the last is followed by an
\* attempt on the next candidate and never ends the call.
C2_FailureAdvances == [] C2_State /\ [][C2_Step]_vars

\* An unclassified error of the second candidate has led to the third, while
\* another call moved on after a timeout of the first.
C2_Witness ==
    \E c, d \in CallIds :
        /\ calls[c].pc = "await_generate" /\ calls[c].i = 3
        /\ calls[c].last_error = [model_index |-> 2, kind |-> "other"]
        /\ calls[d].pc = "await_generate" /\ calls[d].i = 2
        /\ calls[d].last_error = [model_index |-> 1, kind |-> "timeout"]

\* C3: a call that raised the terminal error has attempted every candidate of the
\* list once, in order, none of which answered, and the error wraps the failure of
\* the last one; the raising step is the failure of the last candidate.
C3_State ==
    \A c \in CallIds :
        calls[c].pc = "raised" =>
            /\ calls[c].error = "AllModelsFailed"
            /\ Len(calls[c].attempts) = Len(model_fallbacks)
            /\ InOrder(calls[c].attempts)
            /\ calls[c].answered_by = 0
            /\ calls[c].wrapped.model_index = calls[c].attempts[Len(calls[c].attempts)]
            /\ calls[c].wrapped = calls[c].last_error
            /\ calls[c].wrapped.kind \in ErrorKinds

C3_Step ==
    \A c \in CallIds :
        (calls[c].pc # "raised" /\ calls'[c].pc = "raised") =>
            /\ calls[c].pc = "await_generate"
            /\ calls[c].i = Len(model_fallbacks)
            /\ calls'[c].attempts = calls[c].attempts

\* C3: the terminal error is raised only after every candidate was attempted once
\* and failed, and it wraps the last candidate's failure.
C3_TerminalAfterAll == [] C3_State /\ [][C3_Step]_vars

\* All four candidates failed, the last with a 429.
C3_Witness ==
    \E c \in CallIds :
        /\ calls[c].pc = "raised"
        /\ calls[c].attempts = <<1, 2, 3, 4>>
        /\ calls[c].wrapped = [model_index |-> 4, kind |-> "rate_limit"]

\* C5 as stated: no call writes a field of the shared service, so current_model
\* keeps the value the constructor gave it.
C5_NoSharedWrite == current_model = None

\* The rows _fallback_document_search fetches for the applied arguments, and those
\* among them with more than MinContentLen characters.
AppliedFallback == applied.fn = "_fallback_document_search"

Fetched ==
    { k \in 1..Len(documents) :
        /\ documents[k].notebook_id = applied.notebook_id
        /\ (applied.selected_document_ids = {}
              \/ documents[k].id \in applied.selected_document_ids) }

Substantial(k) ==
    ~documents[k].content_is_null /\ Len(documents[k].content) > MinContentLen

ChunksOf(k) ==
    { j \in 1..Len(applied.result) : applied.result[j].document_id = documents[k].id }

\* C7: the fallback returns one pseudo-chunk for each fetched row of more than 100
\* characters and none for any other row; the chunk carries the row's id, the
\* first 2000 characters of its content and similarity 0.5.
C7_FallbackChunks ==
    AppliedFallback =>
        /\ \A k \in 1..Len(documents) :
              Cardinality(ChunksOf(k)) =
                  IF k \in Fetched /\ Substantial(k) THEN 1 ELSE 0
        /\ \A j \in 1..Len(applied.result) :
              \E k \in Fetched :
                  /\ applied.result[j].document_id = documents[k].id
                  /\ Len(applied.result[j].content) =
                        Min(Len(documents[k].content), MaxContextChars)
                  /\ \A q \in 1..Len(applied.result[j].content) :
                        applied.result[j].content[q] = documents[k].content[q]
                  /\ applied.result[j].similarity = DefaultSimilarity

\* A notebook holding a document of 2001 characters, which is cut to 2000, and one
\* of exactly 100 characters, which is left out.
C7_Witness ==
    /\ AppliedFallback
    /\ Len(applied.result) = 1
    /\ Len(applied.result[1].content) = MaxContextChars
    /\ \E k \in Fetched : Len(documents[k].content) = MaxContextChars + 1
    /\ \E k \in Fetched : Len(documents[k].content) = MinContentLen

\* C8 as stated: whenever the notebook holds a document of more than 100
\* characters, the fallback returns at least one pseudo-chunk.
C8_AnySubstantialDocument ==
    (AppliedFallback /\ \E k \in 1..Len(documents) :
          documents[k].notebook_id = applied.notebook_id /\ Substantial(k)) =>
        Len(applied.result) >= 1

\* C8 amended: whenever the notebook holds a document of more than 100 characters
\* that the selection does not exclude, the fallback returns at least one
\* pseudo-chunk, each of at most 2000 characters and similarity 0.5.
C8_SubstantialSelectedDocument ==
    (AppliedFallback /\ \E k \in Fetched : Substantial(k)) =>
        /\ Len(applied.result) >= 1
        /\ \A j \in 1..Len(applied.result) :
              /\ Len(applied.result[j].content) <= MaxContextChars
              /\ applied.result[j].similarity = DefaultSimilarity

\* The fallback restricted to a selection that names a long document of the
\* notebook and leaves another document out.
C8_Witness ==
    /\ AppliedFallback
    /\ applied.selected_document_ids # {}
    /\ \E k \in Fetched : Len(documents[k].content) > MaxContextChars
    /\ \E k \in 1..Len(documents) :
          documents[k].notebook_id = applied.notebook_id /\ k \notin Fetched
    /\ Len(applied.result) >= 1

\* The errors a provider can cause a chat request to end with: the embedding call,
\* the vector-store query, every candidate model.
ProviderFailures == {"EmbeddingError", "RetrievalError", "AllModelsFailed"}

\* A generate_response call that has ended, and not because a provider failed.
Served(c) ==
    /\ calls[c].kind = "rag"
    /\ Finished(c)
    /\ calls[c].error \notin ProviderFailures

NotebookRows(nb) == { k \in 1..Len(documents) : documents[k].notebook_id = nb }

ChunkDocuments(chunks) == { chunks[j].document_id : j \in 1..Len(chunks) }

\* C4 as stated: a chat request that no provider failed returns metadata whose
\* model_used is the candidate whose attempt produced that request's answer.
C4_ModelUsedIsOwn ==
    \A c \in CallIds :
        Served(c) =>
            /\ calls[c].pc = "returned"
            /\ calls[c].answered_by \in 1..Len(model_fallbacks)
            /\ calls[c].metadata.model_used = model_fallbacks[calls[c].answered_by]

\* C6 as stated: a chat request performs the vector search, invokes the fallback
\* exactly when the search returned nothing, and uses the search results as
\* returned, or else the fallback's pseudo-chunks.
C6_FallbackIffNoHits ==
    \A c \in CallIds :
        Served(c) =>
            /\ calls[c].search_kwargs # {}
            /\ calls[c].fallback_invoked <=> (calls[c].search_result = << >>)
            /\ calls[c].relevant_chunks =
                  IF calls[c].search_result # << >>
                  THEN calls[c].search_result
                  ELSE FallbackDocumentSearch(documents, calls[c].notebook_id,
                                              calls[c].selected_document_ids)

\* C9 as stated: a chat request with a selection issues search_similar scoped to
\* the notebook and the user and restricted to the selection, and uses only
\* chunks of selected documents of the notebook.
C9_SearchRestrictedToSelection ==
    \A c \in CallIds :
        (Served(c) /\ calls[c].selected_document_ids # {}) =>
            /\ {"notebook_id", "user_id", "selected_document_ids"}
                  \subseteq calls[c].search_kwargs
            /\ ChunkDocuments(calls[c].relevant_chunks)
                  \subseteq calls[c].selected_document_ids
            /\ \A d \in ChunkDocuments(calls[c].relevant_chunks) :
                  \E k \in NotebookRows(calls[c].notebook_id) : documents[k].id = d

\* C10 as stated: a chat request on a notebook without documents, where the vector
\* search and the fallback can only come back empty, goes on to generation: it
\* ends with an answer and metadata counting no chunk and no document, or with
\* every candidate model having failed.
C10_EmptyRetrievalIsNoError ==
    \A c \in CallIds :
        (calls[c].kind = "rag" /\ Finished(c)
            /\ NotebookRows(calls[c].notebook_id) = {}) =>
            \/ /\ calls[c].pc = "returned"
               /\ calls[c].metadata.retrieved_chunks = 0
               /\ calls[c].metadata.documents_referenced = {}
            \/ calls[c].error \in ProviderFailures

\* --------------------------------------------------------------- C11
AppliedContext == applied.fn = "_prepare_context"

\* The name block j must carry: the filename of the chunk's document, or the
\* placeholder when the metadata has no entry for it.
BlockName(j) ==
    LET id == applied.chunks[j].document_id
    IN IF id \in DOMAIN applied.document_info
       THEN applied.document_info[id].filename
       ELSE UnknownDocument

BlockLen(j) ==
    Len(DocumentOpen) + Len(BlockName(j)) + Len(DocumentClose)
      + Len(applied.chunks[j].content) + 1

\* Where block j begins in the context: after the blocks and separators before it.
RECURSIVE BlockStart(_)
BlockStart(j) ==
    IF j = 1 THEN 0 ELSE BlockStart(j - 1) + BlockLen(j - 1) + Len(ContextSeparator)

\* piece stands in s right after the first off characters.
At(s, off, piece) ==
    /\ off + Len(piece) <= Len(s)
    /\ SubSeq(s, off + 1, off + Len(piece)) = piece

\* C11: the context is exactly one block per retrieval result, in the order of the
\* results: each block is the header "[Document: <filename>]" and a line break,
\* then the chunk's text and a line break; neighbouring blocks are joined by the
\* separator line; a chunk whose document id has no metadata is headed
\* "Unknown Document"; nothing else is in the context.
C11_OneBlockPerResult ==
    AppliedContext =>
        LET n == Len(applied.chunks)
            r == applied.result
        IN /\ n = 0 => r = << >>
           /\ n > 0 => Len(r) = BlockStart(n) + BlockLen(n)
           /\ \A j \in 1..n :
                LET b == BlockStart(j)
                    h == b + Len(DocumentOpen) + Len(BlockName(j)) + Len(DocumentClose)
                IN /\ At(r, b, DocumentOpen)
                   /\ At(r, b + Len(DocumentOpen), BlockName(j))
                   /\ At(r, b + Len(DocumentOpen) + Len(BlockName(j)), DocumentClose)
                   /\ At(r, h, applied.chunks[j].content)
                   /\ At(r, h + Len(applied.chunks[j].content), <<"\n">>)
           /\ \A j \in 1..(n - 1) :
                At(r, BlockStart(j) + BlockLen(j), ContextSeparator)

\* Two results, the first from a document without metadata, the second from a
\* document with it: two blocks, the placeholder first.
C11_Witness ==
    /\ AppliedContext
    /\ Len(applied.chunks) = 2
    /\ applied.chunks[1].document_id \notin DOMAIN applied.document_info
    /\ applied.chunks[2].document_id \in DOMAIN applied.document_info
    /\ applied.chunks[2].content # << >>
    /\ At(applied.result, 0, DocumentOpen \o UnknownDocument \o DocumentClose)

\* --------------------------------------------------------------- C16
\* A step in which the upload of call c has create_embeddings return.
CreateEmbeddingsReturns(c) ==
    /\ calls[c].kind = "upload"
    /\ calls[c].pc = "await_process_file"
    /\ calls'[c].pc = "returned"

\* The document the step has uploaded, the chunks of its content, the rows the
\* step has added to the chunk table.
Uploaded == documents'[Len(documents')]

UploadedChunks ==
    SplitIntoChunks(Uploaded.content, StoreSettings.chunk_size,
                    StoreSettings.chunk_overlap)

Inserted == document_embeddings' \ document_embeddings

\* The returned batch id was never issued, and no row or document carries it.
FreshBatch(b) ==
    /\ b # NoBatch
    /\ b \notin 1..uuids
    /\ \A r \in document_embeddings : r.embedding_id # b
    /\ \A j \in 1..Len(documents) : documents[j].embedding_id # b

\* Each added row carries the batch id and the document id, and the text of the
\* chunk at its index; no two added rows have the same index.
RowsOfBatch(rows, b) ==
    /\ \A r \in rows :
          /\ r.embedding_id = b
          /\ r.document_id = Uploaded.id
          /\ r.chunk_index \in 0..(Len(UploadedChunks) - 1)
          /\ r.content = UploadedChunks[r.chunk_index + 1]
    /\ \A r \in rows : \A q \in rows : r.chunk_index = q.chunk_index => r = q

C16_ExactlyK_Step ==
    \A c \in CallIds :
        CreateEmbeddingsReturns(c) =>
            /\ document_embeddings \subseteq document_embeddings'
            /\ FreshBatch(Uploaded.embedding_id)
            /\ RowsOfBatch(Inserted, Uploaded.embedding_id)
            /\ { r.chunk_index : r \in Inserted } = 0..(Len(UploadedChunks) - 1)

\* C16 as stated: when create_embeddings returns a batch id for a content of k
\* chunks, the step has added exactly k rows to the chunk table, all with that
\* batch id, never used before, and the document's id, with the indices 0..k-1
\* in chunk order.
C16_ExactlyKRows == [][C16_ExactlyK_Step]_vars

C16_Accepted_Step ==
    \A c \in CallIds :
        CreateEmbeddingsReturns(c) =>
            /\ document_embeddings \subseteq document_embeddings'
            /\ FreshBatch(Uploaded.embedding_id)
            /\ RowsOfBatch(Inserted, Uploaded.embedding_id)
            /\ { r.chunk_index : r \in Inserted }
                  = (0..(Len(UploadedChunks) - 1)) \ calls'[c].refused
            /\ calls'[c].refused \subseteq 0..(Len(UploadedChunks) - 1)

\* C16, amended: when create_embeddings returns a batch id for a content of k
\* chunks, the step has added one row for each chunk whose insert was not logged
\* as failed, exactly k rows when none was, and no other row; the rows carry that
\* batch id, never used before, and the document's id, and each its chunk's
\* index in 0..k-1 and text.
C16_OneRowPerAcceptedChunk == [][C16_Accepted_Step]_vars

\* An upload of two chunks returned its batch id after the insert of the first
\* chunk was logged as failed: the batch has the second chunk's row only.
C16_Witness ==
    \E c \in CallIds : \E j \in 1..Len(documents) :
        /\ calls[c].kind = "upload"
        /\ calls[c].pc = "returned"
        /\ calls[c].refused = {0}
        /\ documents[j].embedding_id # NoBatch
        /\ { r.chunk_index : r \in { q \in document_embeddings :
                                       q.embedding_id = documents[j].embedding_id } } = {1}

\* --------------------------------------------------------------- C17
AppliedDelete == applied.fn = "delete_embeddings"

C18_NoChunkOfDestroyedDocument ==
    \A r \in document_embeddings :
        \E j \in 1..Len(documents) : documents[j].id = r.document_id

\* --------------------------------------------------------------- C19
AppliedCitations == applied.fn = "_extract_citations"

\* An occurrence of "[Document: <text>]" at index p of the answer: the opening,
\* then a text of at least one character none of which is "]", then "]" at q.
OccursAt(p, q) ==
    /\ At(applied.text, p - 1, DocumentOpen)
    /\ q > p + Len(DocumentOpen)
    /\ q <= Len(applied.text)
    /\ applied.text[q] = "]"
    /\ \A k \in (p + Len(DocumentOpen))..(q - 1) : applied.text[k] # "]"

Occurrences == { p \in 1..Len(applied.text) : \E q \in 1..Len(applied.text) : OccursAt(p, q) }

OccurrenceEnd(p) == CHOOSE q \in 1..Len(applied.text) : OccursAt(p, q)

OccurrenceText(p) == SubSeq(applied.text, p + Len(DocumentOpen), OccurrenceEnd(p) - 1)

\* The occurrences a left-to-right scan reports: they do not overlap, and every
\* other occurrence begins inside a reported one.
Scanned(S) ==
    /\ \A p \in S : \A r \in S : p < r => OccurrenceEnd(p) < r
    /\ \A m \in Occurrences \ S : \E p \in S : p < m /\ m <= OccurrenceEnd(p)

\* t is s without the whitespace at its two ends.
IsTrimOf(t, s) ==
    /\ \E a \in 0..Len(s) :
          /\ a + Len(t) <= Len(s)
          /\ SubSeq(s, a + 1, a + Len(t)) = t
          /\ \A k \in (1..a) \cup ((a + Len(t) + 1)..Len(s)) : s[k] \in Whitespace
    /\ t # << >> => (t[1] \notin Whitespace /\ t[Len(t)] \notin Whitespace)

\* C19: the citations are one record {type "document", reference} per occurrence
\* of "[Document: <text>]" met scanning the answer from left to right, in the order
\* of the occurrences, the reference being the occurrence's text without the
\* whitespace at its ends; repeated references are kept, nothing else is added, and
\* an answer without occurrence gives the empty list.
C19_OneCitationPerOccurrence ==
    AppliedCitations =>
        \E S \in SUBSET Occurrences :
            /\ Scanned(S)
            /\ Len(applied.result) = Cardinality(S)
            /\ \A p \in S :
                 LET rec == applied.result[Cardinality({ r \in S : r <= p })]
                 IN /\ DOMAIN rec = {"type", "reference"}
                    /\ rec.type = "document"
                    /\ IsTrimOf(rec.reference, OccurrenceText(p))

\* An answer citing the same name twice, both times with blanks around it: two
\* citations with the same trimmed reference.
C19_Witness ==
    /\ AppliedCitations
    /\ Len(applied.result) = 2
    /\ applied.result[1].reference = <<"b">>
    /\ applied.result[2].reference = <<"b">>
    /\ \E p \in Occurrences : OccurrenceText(p) = <<" ", "b", " ">>

\* --------------------------------------------------------------- C12
\* C12 as stated: a chat request that no provider failed, and whose search
\* returned hits, returns its answer with metadata in which retrieved_chunks is
\* the number of hits, documents_referenced is the set of the hits' document ids
\* and citations are those extracted from the returned answer.
C12_MetadataDescribesHits ==
    \A c \in CallIds :
        Served(c) =>
            /\ calls[c].pc = "returned"
            /\ calls[c].search_kwargs # {}
            /\ calls[c].search_result # << >> =>
                  /\ calls[c].metadata.retrieved_chunks = Len(calls[c].search_result)
                  /\ calls[c].metadata.documents_referenced
                        = ChunkDocuments(calls[c].search_result)
                  /\ calls[c].citations = ExtractCitations(calls[c].response_text)

\* --------------------------------------------------------------- C13
\* What a call holds of the pair (answer, metadata) before it has returned one.
NoValue(c) ==
    /\ calls[c].response_text = IdleCall.response_text
    /\ calls[c].citations = IdleCall.citations
    /\ calls[c].metadata = IdleCall.metadata

C13_State ==
    \A c \in CallIds :
        calls[c].kind = "rag" =>
            /\ Finished(c)
            /\ calls[c].pc = "raised" => (calls[c].error # None /\ NoValue(c))
            /\ calls[c].pc = "returned" =>
                  /\ calls[c].error = None
                  /\ calls[c].search_kwargs # {}
                  /\ calls[c].answered_by # 0

C13_Step ==
    \A c \in CallIds :
        (calls[c].kind = "rag" /\ Finished(c)) => calls'[c] = calls[c]

\* C13: a chat request in which a stage raised has ended with one terminal error
\* and no (answer, metadata) value, and nothing follows that error; a request
\* that returned a pair raised nothing and completed its stages.
C13_AllOrNothing == [] C13_State /\ [][C13_Step]_vars

\* The call of the vector search raised (the TypeError of its binding): the
\* request ended with that one error and without a value.
C13_Witness ==
    \E c \in CallIds :
        /\ calls[c].kind = "rag"
        /\ calls[c].pc = "raised"
        /\ calls[c].error = "TypeError"
        /\ NoValue(c)

\* --------------------------------------------------------------- C14
AppliedChunker == applied.fn = "_split_into_chunks"

\* The distance between the starts of two neighbouring chunks.
Stride == applied.chunk_size - applied.overlap

\* ceil(n / d)
CeilDiv(n, d) == (n + d - 1) \div d

\* The words from position i (counted from 0) up to, not including, position i + n
\* or the end of the text, joined by single blanks.
Window(i, n) ==
    Join(<<" ">>, [j \in 1..(Min(i + n, Len(applied.words)) - i) |-> applied.words[i + j]])

\* C14: a text of N words, split with chunk size c and overlap o < c, gives exactly
\* ceil(N / (c - o)) chunks, in left-to-right order, chunk k (counted from 0)
\* beginning at word k * (c - o) and holding the words from there, at most c of
\* them; a text without words, empty or blank, gives no chunk.
C14_ChunkCountAndStarts ==
    AppliedChunker =>
        LET N == Len(applied.words)
        IN /\ Len(applied.result) = CeilDiv(N, Stride)
           /\ \A k \in 0..(Len(applied.result) - 1) :
                /\ k * Stride < N
                /\ At(applied.result[k + 1], 0, applied.words[k * Stride + 1])
                /\ applied.result[k + 1] = Window(k * Stride, applied.chunk_size)
           /\ N = 0 => applied.result = << >>

\* Six words between multi-character gaps, window 4, overlap 1: two chunks, the
\* second beginning at the fourth word and holding the three words left.
C14_Witness ==
    /\ AppliedChunker
    /\ Len(applied.words) = 6
    /\ Len(applied.content) > 6 * 2 + 5
    /\ applied.chunk_size = 4
    /\ applied.overlap = 1
    /\ Len(applied.result) = 2
    /\ Split(applied.result[2]) = <<Word(4), Word(5), Word(6)>>

\* --------------------------------------------------------------- C15
\* The last and the first n words of a chunk; all its words when it has fewer.
LastWords(chunk, n) ==
    LET ws == Split(chunk) IN SubSeq(ws, Len(ws) - Min(n, Len(ws)) + 1, Len(ws))

FirstWords(chunk, n) ==
    LET ws == Split(chunk) IN SubSeq(ws, 1, Min(n, Len(ws)))

EmbeddingRaises(c) ==
    /\ calls[c].kind = "upload"
    /\ calls[c].pc = "await_process_file"
    /\ calls'[c].failure = "_generate_embedding"

C21_Step ==
    \A c \in CallIds :
        EmbeddingRaises(c) =>
            LET j == calls'[c].failed_at
            IN /\ j \in 0..(Len(UploadedChunks) - 1)
               /\ calls'[c].pc = "raised"
               /\ calls'[c].error # None
               /\ Uploaded.embedding_id = NoBatch
               /\ \A d \in 1..Len(documents') :
                     \A r \in Inserted : documents'[d].embedding_id # r.embedding_id
               /\ document_embeddings \subseteq document_embeddings'
               /\ \E b \in 1..uuids' :
                     /\ FreshBatch(b)
                     /\ RowsOfBatch(Inserted, b)
               /\ { r.chunk_index : r \in Inserted } = (0..(j - 1)) \ calls'[c].refused
               /\ calls'[c].refused \subseteq 0..(j - 1)

\* C21: when the embedding of chunk j raises in create_embeddings, the call
\* raises to its caller and returns no batch id (no document carries the batch);
\* no row with an index of j or more is written, and the rows of the chunks
\* before j that were inserted are in the table under the one new batch id,
\* beside every row that was there before.
C21_AbortKeepsPartialBatch == [][C21_Step]_vars

\* An upload of two chunks whose second embedding raised: the first chunk's row
\* is in the table and the call has raised.
C21_Witness ==
    \E c \in CallIds : \E r \in document_embeddings :
        /\ calls[c].kind = "upload"
        /\ calls[c].pc = "raised"
        /\ calls[c].failure = "_generate_embedding"
        /\ calls[c].failed_at = 1
        /\ calls[c].refused = {}
        /\ r.document_id = documents[Len(documents)].id
        /\ r.chunk_index = 0
        /\ Len(documents) > 0
        /\ documents[Len(documents)].embedding_id = NoBatch

\* ---- C22
\* The step of upload_document in which create_embeddings ran, to its return or
\* to the chunk at which it raised.
CreateEmbeddingsRuns(c) ==
    /\ calls[c].kind = "upload"
    /\ calls[c].pc = "await_process_file"
    /\ Len(documents') = Len(documents) + 1

\* The chunks whose insert failed in the step: those answered without data and
\* the one whose insert raised.
FailedInserts(c) ==
    calls'[c].refused \cup
        (IF calls'[c].failure = "insert" THEN {calls'[c].failed_at} ELSE {})

InsertedIndices == { r.chunk_index : r \in Inserted }

C22_NeverAborts_Step ==
    \A c \in CallIds :
        CreateEmbeddingsRuns(c) /\ calls'[c].failure # "_generate_embedding" =>
            \A j \in FailedInserts(c) :
                /\ calls'[c].pc = "returned"
                /\ Uploaded.embedding_id # NoBatch
                /\ \A i \in (j + 1)..(Len(UploadedChunks) - 1) : i \in InsertedIndices

\* C22: when no embedding raises, a failed insert of chunk j does not abort the
\* loop of create_embeddings: every later chunk is inserted and the call returns
\* the batch id, which upload_document writes to the document.
C22_FailedInsertNeverAborts == [][C22_NeverAborts_Step]_vars

\* The chunks the loop reached after chunk j: all later ones when the loop ran to
\* its end, those up to the chunk at which it raised otherwise.
ReachedAfter(c, j) ==
    { i \in (j + 1)..(Len(UploadedChunks) - 1) :
        calls'[c].failed_at = NoChunk \/ i <= calls'[c].failed_at }

C22_GoesOn_Step ==
    \A c \in CallIds :
        CreateEmbeddingsRuns(c) =>
            /\ \A j \in calls'[c].refused :
                  /\ j \notin InsertedIndices
                  /\ \A i \in ReachedAfter(c, j) :
                        \/ i \in InsertedIndices
                        \/ i \in calls'[c].refused
                        \/ i = calls'[c].failed_at
            /\ calls'[c].failure = None =>
                  /\ calls'[c].pc = "returned"
                  /\ FreshBatch(Uploaded.embedding_id)
                  /\ RowsOfBatch(Inserted, Uploaded.embedding_id)
                  /\ InsertedIndices = (0..(Len(UploadedChunks) - 1)) \ calls'[c].refused
            /\ calls'[c].failure = "insert" =>
                  /\ calls'[c].pc = "raised"
                  /\ Uploaded.embedding_id = NoBatch
                  /\ \A i \in InsertedIndices : i < calls'[c].failed_at

\* What the loop does about a failed insert: one that answers without data leaves no row
\* for chunk j and does not end the loop: every later chunk the loop reaches
\* before a call raises is inserted or has its own insert fail, and when no call
\* raises the batch id is returned with a row for every chunk whose insert was
\* accepted. An insert that raises ends the loop: the call raises, no batch id
\* is returned and no row of that chunk or a later one is written.
C22_RefusedInsertGoesOn == [][C22_GoesOn_Step]_vars

\* An upload of two chunks returned its batch id with the first insert answered
\* without data: the row of the second chunk, written after it, is in the table.
C22_Witness ==
    \E c \in CallIds : \E r \in document_embeddings :
        /\ calls[c].kind = "upload"
        /\ calls[c].pc = "returned"
        /\ calls[c].refused = {0}
        /\ Len(documents) > 0
        /\ r.embedding_id = documents[Len(documents)].embedding_id
        /\ r.document_id = documents[Len(documents)].id
        /\ r.chunk_index = 1

\* ---- C23
\* The upload whose create_embeddings generated batch b is still in its loop.
InLoop(c, b) ==
    /\ calls[c].pc = "create_embeddings"
    /\ calls[c].embedding_id = b
    /\ ~LoopDone(calls[c])

C23_State ==
    \A j \in 1..Len(documents) :
        documents[j].embedding_id # NoBatch =>
            \A c \in CallIds : ~InLoop(c, documents[j].embedding_id)

\* A step that inserts a document inserts it without a batch id; a step that
\* writes a batch id to a document is the step of the upload of that document
\* after its create_embeddings has processed every chunk and returned; a step
\* that adds a row of a batch finds no document carrying that batch.
C23_Step ==
    /\ Len(documents') > Len(documents) =>
          documents'[Len(documents')].embedding_id = NoBatch
    /\ \A j \in 1..Len(documents) :
          (Len(documents') = Len(documents) /\ documents'[j] # documents[j]) =>
              /\ documents[j].embedding_id = NoBatch
              /\ documents'[j] = [documents[j] EXCEPT
                                     !.embedding_id = documents'[j].embedding_id]
              /\ \E c \in CallIds :
                    /\ calls[c].pc = "create_embeddings"
                    /\ calls'[c].pc = "returned"
                    /\ calls[c].document_id = documents[j].id
                    /\ calls[c].embedding_id = documents'[j].embedding_id
                    /\ calls[c].i = Len(calls[c].chunks)
                    /\ calls[c].chunks =
                          SplitIntoChunks(documents[j].content, StoreSettings.chunk_size,
                                          StoreSettings.chunk_overlap)
    /\ \A r \in Inserted :
          \A j \in 1..Len(documents) : documents[j].embedding_id # r.embedding_id

\* C23: upload_document stores the document without a batch id and writes the
\* batch id only after create_embeddings for that document has returned, having
\* processed all of its chunks; no row of a batch is written after the batch id
\* is on a document.
C23_TwoPhaseUpload == []C23_State /\ [][C23_Step]_vars

\* An upload of two chunks between its two iterations: its document has no
\* batch id yet and the row of its first chunk is already in the table.
C23_Witness ==
    \E c \in CallIds : \E j \in 1..Len(documents) : \E r \in document_embeddings :
        /\ calls[c].kind = "upload"
        /\ calls[c].pc = "create_embeddings"
        /\ calls[c].i = 1
        /\ Len(calls[c].chunks) = 2
        /\ documents[j].id = calls[c].document_id
        /\ documents[j].embedding_id = NoBatch
        /\ r.embedding_id = calls[c].embedding_id
        /\ r.document_id = documents[j].id

\* ---- C24
\* The upload c has failed inside create_embeddings.
CreateEmbeddingsFailed(c) ==
    /\ calls[c].kind = "upload"
    /\ calls[c].pc = "raised"
    /\ calls[c].failure # None

BatchRows(b) == { r \in document_embeddings : r.embedding_id = b }

C24_State ==
    \A c \in CallIds :
        CreateEmbeddingsFailed(c) =>
            /\ calls[c].error = "400"
            /\ \A j \in 1..Len(documents) :
                  documents[j].id = calls[c].document_id =>
                      documents[j].embedding_id = NoBatch
            /\ { r.chunk_index : r \in BatchRows(calls[c].embedding_id) }
                  = (0..(calls[c].failed_at - 1)) \ calls[c].refused

C24_Step ==
    \A c \in CallIds :
        /\ (calls[c].pc = "create_embeddings" /\ calls'[c].pc = "raised") =>
              /\ documents' = documents
              /\ document_embeddings' = document_embeddings
              /\ \A j \in 1..Len(documents) :
                    documents[j].id = calls[c].document_id =>
                        documents[j].embedding_id = NoBatch
        /\ CreateEmbeddingsFailed(c) => calls'[c] = calls[c]

\* C24: when create_embeddings fails during upload_document, the upload answers
\* with an error and sends the store nothing more: the failing step leaves the
\* document row, with its batch id unset, and the chunk table as they are, the
\* rows written before the failure stay in the table, the batch id is never
\* written to the document, and the upload takes no further step.
C24_NoRollbackNoRetry == []C24_State /\ [][C24_Step]_vars

\* An upload of two chunks has failed at its second chunk: its document is in
\* the store without a batch id and the first chunk's row is in the table.
C24_Witness ==
    \E c \in CallIds : \E j \in 1..Len(documents) :
        /\ CreateEmbeddingsFailed(c)
        /\ calls[c].failed_at = 1
        /\ documents[j].id = calls[c].document_id
        /\ documents[j].embedding_id = NoBatch
        /\ \E r \in BatchRows(calls[c].embedding_id) :
              r.document_id = documents[j].id /\ r.chunk_index = 0

\* ---- C25
Trying(c) == calls[c].pc = "await_generate"

Success(c) == calls[c].pc = "returned"

AllFailed(c) == calls[c].pc = "raised"

C25_State ==
    \A c \in CallIds :
        /\ calls[c].pc \in {"idle", "await_generate", "returned", "raised"}
        /\ calls[c].pc = "idle" => calls[c].attempts = << >>
        /\ calls[c].pc # "idle" =>
              /\ calls[c].i \in 1..Len(model_fallbacks)
              /\ calls[c].attempts = [j \in 1..calls[c].i |-> j]
        /\ AllFailed(c) => calls[c].i = Len(model_fallbacks)

C25_Step ==
    \A c \in CallIds :
        /\ calls[c].pc = "idle" =>
              \/ calls'[c] = calls[c]
              \/ Trying(c)' /\ calls'[c].i = 1
        /\ Trying(c) =>
              \/ calls'[c] = calls[c]
              \/ Trying(c)' /\ calls'[c].i = calls[c].i + 1
              \/ Success(c)' /\ calls'[c].i = calls[c].i
              \/ AllFailed(c)' /\ calls'[c].i = calls[c].i
        /\ (Success(c) \/ AllFailed(c)) => calls'[c] = calls[c]

\* A call leaves Trying only for a terminal state (C25_Step), so that every call
\* that is trying terminates exactly when, from some point on, none is trying.
C25_Terminates == <>[](\A c \in CallIds : ~Trying(c))

\* C25: a generation call goes from not started to trying the first candidate,
\* from a candidate only to the next one or to a terminal state, and stays in a
\* terminal state: the candidates tried so far are 1..i, each once; the call
\* fails only after the last candidate; and every call that is trying a
\* candidate eventually succeeds or fails for good.
C25_GenerationStateMachine == []C25_State /\ [][C25_Step]_vars /\ C25_Terminates

\* One call has succeeded at its second candidate and another has failed after
\* the last one.
C25_Witness ==
    \E c \in CallIds : \E b \in CallIds :
        /\ Success(c)
        /\ calls[c].attempts = <<1, 2>>
        /\ AllFailed(b)
        /\ Len(calls[b].attempts) = Len(model_fallbacks)

\* ---- C26
Removed == document_embeddings \ document_embeddings'

C26_Step ==
    /\ Inserted = {} \/ Removed = {}
    /\ \A r \in Inserted : \A q \in document_embeddings : q.id # r.id
    /\ \A r \in Removed :
          /\ \A q \in document_embeddings' : q.embedding_id # r.embedding_id
          /\ \A q \in Removed : q.embedding_id = r.embedding_id

\* C26: no step of an upload, a search, a chat message, a document update or a
\* deletion changes a field of a chunk record that stays in the table: a step
\* either adds records, under ids no record had, or removes records, all those
\* of one batch, and leaves every other record as it was.
C26_ChunksImmutable == [][C26_Step]_vars

\* The owner has renamed the uploaded document, whose chunk is in the table.
C26_Witness ==
    /\ applied.fn = "update_document"
    /\ applied.status = 200
    /\ \E j \in 1..Len(documents) :
          /\ documents[j].id = applied.target
          /\ documents[j].filename # UploadName
          /\ \E r \in document_embeddings : r.document_id = documents[j].id

\* ---- C27
\* The words of chunk k (counted from 1).
ChunkWords(k) == Split(applied.result[k])

\* The first c - o words of each chunk but the last, then the whole last chunk,
\* one after the other, from chunk k on.
RECURSIVE Recomposed(_)
Recomposed(k) ==
    IF k > Len(applied.result) THEN << >>
    ELSE IF k = Len(applied.result) THEN ChunkWords(k)
    ELSE FirstWords(applied.result[k], Stride) \o Recomposed(k + 1)

\* C27: for a text of N >= 1 words and an overlap below the chunk size, every
\* word position lies in a chunk, at the place the chunk's start gives it; every
\* chunk has at least one and at most chunk_size words; and the first
\* chunk_size - overlap words of each chunk but the last, followed by the whole
\* last chunk, are the words of the text in order.
C27_ChunksCoverContent ==
    (AppliedChunker /\ Len(applied.words) >= 1) =>
        /\ \A p \in 0..(Len(applied.words) - 1) :
              \E k \in 1..Len(applied.result) :
                  LET at == p - (k - 1) * Stride
                  IN /\ at \in 0..(Len(ChunkWords(k)) - 1)
                     /\ ChunkWords(k)[at + 1] = applied.words[p + 1]
        /\ \A k \in 1..Len(applied.result) :
              Len(ChunkWords(k)) \in 1..applied.chunk_size
        /\ Recomposed(1) = applied.words

\* Five words, window 3, overlap 1: the chunks of three, three and one word give
\* back the five words from their first two, first two and one word.
C27_Witness ==
    /\ AppliedChunker
    /\ Len(applied.words) = 5
    /\ applied.chunk_size = 3
    /\ applied.overlap = 1
    /\ Len(applied.result) = 3
    /\ ChunkWords(1) = <<Word(1), Word(2), Word(3)>>
    /\ ChunkWords(3) = <<Word(5)>>
    /\ Recomposed(1) = <<Word(1), Word(2), Word(3), Word(4), Word(5)>>

\* ---- C28
\* The step is the answer of a one-step route.
Answered == applied.fn = "none" /\ applied'.fn # "none"

\* The notebooks the request of the step is about: the notebook it names, or
\* the notebook of the document, chat record or note it names.
TargetNotebooks ==
    LET Of(rows) == { r.notebook_id : r \in { q \in rows : q.id = applied'.target } }
    IN CASE applied'.table = "notebooks" -> {applied'.target}
         [] applied'.table = "documents" -> Of(DocumentRows)
         [] applied'.table = "chat_history" -> Of(chat_history)
         [] applied'.table = "notes" -> Of(notes)

NotOwner(user, nbs) == \E nb \in nbs : ~OwnsNotebook(user, nb)

StoreUnchanged == documents' = documents /\ store' = store

\* The step is the first step of an upload.
UploadStarts(c) == calls[c].pc = "idle" /\ calls'[c].kind = "upload"

C28_Step ==
    /\ (Answered /\ NotOwner(applied'.user_id, TargetNotebooks)) =>
          /\ applied'.status = 404
          /\ applied'.cause = None
          /\ StoreUnchanged
    /\ \A c \in CallIds :
          /\ (UploadStarts(c) /\ NotOwner(calls'[c].user_id, {calls'[c].notebook_id})) =>
                /\ calls'[c].pc = "raised"
                /\ calls'[c].error = "404"
                /\ StoreUnchanged
          /\ (calls[c].kind = "upload" /\ calls[c].error = "404") =>
                calls'[c] = calls[c]

\* C28: a request of a user who does not own the notebook it names, or the
\* notebook of the document, chat record or note it names, is answered 404 and
\* leaves every table as it was, whichever route it takes: upload, document
\* update and delete, send_message, chat delete and clear, note create, update
\* and delete, notebook update and delete; generate_response is not called for
\* it, and an upload answered 404 does nothing more.
C28_OwnershipGatesEveryRoute == [][C28_Step]_vars

\* The user of the second notebook asked to delete the document of the first
\* one: the answer was 404 and the document and its chunk are still there.
C28_Witness ==
    /\ applied.fn = "delete_document"
    /\ applied.user_id = "u2"
    /\ applied.status = 404
    /\ \E j \in 1..Len(documents) :
          /\ documents[j].id = applied.target
          /\ documents[j].notebook_id = "n1"
          /\ \E r \in document_embeddings : r.document_id = documents[j].id

\* ---- C29
\* The step is the answer of send_message.
SendMessageAnswered == Answered /\ applied'.fn = "send_message"

SavedChats == chat_history' \ chat_history

C29_Step ==
    /\ SendMessageAnswered =>
          /\ chat_history \subseteq chat_history'
          /\ applied'.status = 200 =>
                /\ applied'.cause = None
                /\ \E r \in SavedChats :
                      /\ SavedChats = {r}
                      /\ r.notebook_id = applied'.target
                      /\ \A q \in chat_history : q.id # r.id
          /\ applied'.status # 200 => SavedChats = {}
          /\ applied'.cause # None =>
                /\ applied'.status = 500
                /\ SavedChats = {}
    /\ ~SendMessageAnswered => SavedChats = {}

AppliedSearch == applied.fn = "search"

\* C30: search, for a notebook whose vector search yields m chunks, returns m
\* results in the order of the chunks, each with its chunk's document id, the
\* filename of that document or "Unknown Document", the similarity, and as
\* snippet the chunk's content, cut to its first 500 characters and "..." when
\* it is longer.
C30_OneResultPerChunk ==
    AppliedSearch =>
        /\ ~applied.raised
        /\ Len(applied.result) = Len(applied.similar_chunks)
        /\ \A k \in 1..Len(applied.result) :
              LET chunk == applied.similar_chunks[k]
                  res == applied.result[k]
              IN /\ res.document_id = chunk.document_id
                 /\ res.document_name =
                       (IF chunk.document_id \in DOMAIN applied.document_info
                        THEN applied.document_info[chunk.document_id].filename
                        ELSE UnknownDocument)
                 /\ res.similarity_score = chunk.similarity
                 /\ res.content_snippet =
                       (IF Len(chunk.content) <= SnippetChars THEN chunk.content
                        ELSE SubSeq(chunk.content, 1, SnippetChars) \o Ellipsis)

====
